---- MODULE Spec2Model ----
(***************************************************************************)
(* Model of the evaluation and drift-detection core:                       *)
(*   src/pipeline/eval/metrics.py   calculate_field_match                  *)
(*   src/services/drift/service.py  DriftConfig, DriftDetector             *)
(*                                                                         *)
(* Floating-point values are IEEE-754 doubles [sign, m, e] with the value   *)
(* sign * m * 2^e, and every operation on them rounds as the double        *)
(* operation does (round to nearest, ties to even); statistics.mean and    *)
(* statistics.stdev round once, from the exact value of their data.        *)
(* The Prometheus counters/gauges/histogram and the log lines are write-   *)
(* only side effects of the detector and are not part of the state.        *)
(***************************************************************************)
EXTENDS Integers, Sequences, FiniteSets, TLC

VARIABLES
    config,             \* self.config (DriftConfig), fixed at construction
    samples,            \* self.samples: deque(maxlen=window_size) of DriftSample
    baseline_accuracy,  \* self.baseline_accuracy: float | None
    alerts,             \* self.alerts: list[DriftAlert]
    field_accuracies,   \* self._field_accuracies: field -> deque(maxlen=window_size)
    last_op,            \* the call that produced this state
    result,             \* what that call returned (or the exception it raised)
    last_arg,           \* the argument of that call (a document, a baseline, or None)
    ingested,           \* number of add_sample calls since construction / clear()
    fresh,              \* a detector constructed anew at the last clear(), fed the same calls
    calls               \* the add_sample calls in progress on threads sharing the detector

vars == <<config, samples, baseline_accuracy, alerts, field_accuracies,
          last_op, last_arg, result, ingested, fresh, calls>>

-----------------------------------------------------------------------------
(* Bounds of the exploration *)

\* add_sample calls per epoch (construction or clear() to the next clear())
MaxSamples == 3
\* largest window_size of the exhaustively explored configurations
MaxWindow == 2

-----------------------------------------------------------------------------
(* Python values *)

None == [k |-> "none"]
Str(cs) == [k |-> "str", v |-> cs]
Float(th) == [k |-> "float", v |-> th]        \* th: the value in thousandths
Dec(th) == [k |-> "decimal", v |-> th]        \* decimal.Decimal, in thousandths
PyInt(th) == [k |-> "int", v |-> th]          \* int, in thousandths (a multiple of 1000)
\* decimal.Decimal(n * 2**shift) for th = 1000 * n: th thousandths times 2^shift
BigDec(th, shift) == [k |-> "decimal", v |-> th, shift |-> shift]
Date(y, m, d) == [k |-> "date", v |-> <<y, m, d>>]

IsNone(x) == "k" \in DOMAIN x /\ x.k = "none"
IsNumeric(x) == x.k \in {"int", "float", "decimal"}
IsStr(x) == x.k = "str"
IsDate(x) == x.k = "date"

Abs(i) == IF i < 0 THEN -i ELSE i
Min(a, b) == IF a < b THEN a ELSE b

\* A character is a string of one character, read as UTF-8; a character that a
\* string of the module cannot hold, which is any beyond U+00FF and the
\* backquote, is written by its code point in at least four hexadecimal digits
\* ("U+2003", "U+1F600", "U+0060").

\* the characters str.strip() and str.split() take for whitespace (str.isspace):
\* U+0009 to U+000D, U+001C to U+001F, U+0020, U+0085, U+00A0, and the spaces and
\* separators beyond
Whitespace ==
    {" ", "\t", "\n", "\r", "\f", "", "", "", "", "", "", " ",
     "U+1680", "U+2000", "U+2001", "U+2002", "U+2003", "U+2004",
     "U+2005", "U+2006", "U+2007", "U+2008", "U+2009", "U+200A",
     "U+2028", "U+2029", "U+202F", "U+205F", "U+3000"}

\* the letters of ASCII and of U+00C0 to U+00DE with their lower case
UpperCase == <<"A", "B", "C", "D", "E", "F", "G", "H", "I", "J", "K", "L", "M",
               "N", "O", "P", "Q", "R", "S", "T", "U", "V", "W", "X", "Y", "Z",
               "À", "Á", "Â", "Ã", "Ä", "Å", "Æ", "Ç", "È", "É",
               "Ê", "Ë", "Ì", "Í", "Î", "Ï", "Ð", "Ñ", "Ò", "Ó",
               "Ô", "Õ", "Ö", "Ø", "Ù", "Ú", "Û", "Ü", "Ý", "Þ">>
LowerCase == <<"a", "b", "c", "d", "e", "f", "g", "h", "i", "j", "k", "l", "m",
               "n", "o", "p", "q", "r", "s", "t", "u", "v", "w", "x", "y", "z",
               "à", "á", "â", "ã", "ä", "å", "æ", "ç", "è", "é",
               "ê", "ë", "ì", "í", "î", "ï", "ð", "ñ", "ò", "ó",
               "ô", "õ", "ö", "ø", "ù", "ú", "û", "ü", "ý", "þ">>

\* the digits of a code point in a character's name
HexDigits == <<"0", "1", "2", "3", "4", "5", "6", "7",
               "8", "9", "A", "B", "C", "D", "E", "F">>

HexValue(d) == (CHOOSE i \in 1..Len(HexDigits) : HexDigits[i] = d) - 1

RECURSIVE HexNumber(_, _)
HexNumber(digits, n) ==
    IF digits = "" THEN n
    ELSE HexNumber(Tail(digits), 16 * n + HexValue(Head(digits)))

RECURSIVE HexName(_, _)
HexName(n, width) ==
    IF n = 0 /\ width <= 0 THEN ""
    ELSE HexName(n \div 16, width - 1) \o HexDigits[(n % 16) + 1]

\* the character is written by its code point
Named(c) == Len(c) > 2 /\ SubSeq(c, 1, 2) = "U+"

\* ord() of a character written by its code point, and chr() beyond U+00FF
CodePoint(c) == HexNumber(SubSeq(c, 3, Len(c)), 0)
Chr(n) == "U+" \o HexName(n, 4)

\* <<first, last, step, delta>>: every step-th code point from first to last has
\* its lower case delta further on (Unicode 14.0, the tables of Python 3.11)
LowerRanges ==
    <<<<256, 302, 2, 1>>, <<306, 310, 2, 1>>, <<313, 327, 2, 1>>, <<330, 374, 2, 1>>,
      <<377, 381, 2, 1>>, <<385, 385, 1, 210>>, <<386, 388, 2, 1>>, <<390, 390, 1, 206>>,
      <<391, 391, 1, 1>>, <<393, 394, 1, 205>>, <<395, 395, 1, 1>>, <<398, 398, 1, 79>>,
      <<399, 399, 1, 202>>, <<400, 400, 1, 203>>, <<401, 401, 1, 1>>, <<403, 403, 1, 205>>,
      <<404, 404, 1, 207>>, <<406, 406, 1, 211>>, <<407, 407, 1, 209>>, <<408, 408, 1, 1>>,
      <<412, 412, 1, 211>>, <<413, 413, 1, 213>>, <<415, 415, 1, 214>>, <<416, 420, 2, 1>>,
      <<422, 422, 1, 218>>, <<423, 423, 1, 1>>, <<425, 425, 1, 218>>, <<428, 428, 1, 1>>,
      <<430, 430, 1, 218>>, <<431, 431, 1, 1>>, <<433, 434, 1, 217>>, <<435, 437, 2, 1>>,
      <<439, 439, 1, 219>>, <<440, 440, 1, 1>>, <<444, 444, 1, 1>>, <<452, 452, 1, 2>>,
      <<453, 453, 1, 1>>, <<455, 455, 1, 2>>, <<456, 456, 1, 1>>, <<458, 458, 1, 2>>,
      <<459, 475, 2, 1>>, <<478, 494, 2, 1>>, <<497, 497, 1, 2>>, <<498, 500, 2, 1>>,
      <<502, 502, 1, -97>>, <<503, 503, 1, -56>>, <<504, 542, 2, 1>>, <<544, 544, 1, -130>>,
      <<546, 562, 2, 1>>, <<570, 570, 1, 10795>>, <<571, 571, 1, 1>>, <<573, 573, 1, -163>>,
      <<574, 574, 1, 10792>>, <<577, 577, 1, 1>>, <<579, 579, 1, -195>>, <<580, 580, 1, 69>>,
      <<581, 581, 1, 71>>, <<582, 590, 2, 1>>, <<880, 882, 2, 1>>, <<886, 886, 1, 1>>,
      <<895, 895, 1, 116>>, <<902, 902, 1, 38>>, <<904, 906, 1, 37>>, <<908, 908, 1, 64>>,
      <<910, 911, 1, 63>>, <<913, 929, 1, 32>>, <<931, 939, 1, 32>>, <<975, 975, 1, 8>>,
      <<984, 1006, 2, 1>>, <<1012, 1012, 1, -60>>, <<1015, 1015, 1, 1>>, <<1017, 1017, 1, -7>>,
      <<1018, 1018, 1, 1>>, <<1021, 1023, 1, -130>>, <<1024, 1039, 1, 80>>, <<1040, 1071, 1, 32>>,
      <<1120, 1152, 2, 1>>, <<1162, 1214, 2, 1>>, <<1216, 1216, 1, 15>>, <<1217, 1229, 2, 1>>,
      <<1232, 1326, 2, 1>>, <<1329, 1366, 1, 48>>, <<4256, 4293, 1, 7264>>, <<4295, 4295, 1, 7264>>,
      <<4301, 4301, 1, 7264>>, <<5024, 5103, 1, 38864>>, <<5104, 5109, 1, 8>>, <<7312, 7354, 1, -3008>>,
      <<7357, 7359, 1, -3008>>, <<7680, 7828, 2, 1>>, <<7840, 7934, 2, 1>>, <<7944, 7951, 1, -8>>,
      <<7960, 7965, 1, -8>>, <<7976, 7983, 1, -8>>, <<7992, 7999, 1, -8>>, <<8008, 8013, 1, -8>>,
      <<8025, 8031, 2, -8>>, <<8040, 8047, 1, -8>>, <<8072, 8079, 1, -8>>, <<8088, 8095, 1, -8>>,
      <<8104, 8111, 1, -8>>, <<8120, 8121, 1, -8>>, <<8122, 8123, 1, -74>>, <<8124, 8124, 1, -9>>,
      <<8136, 8139, 1, -86>>, <<8140, 8140, 1, -9>>, <<8152, 8153, 1, -8>>, <<8154, 8155, 1, -100>>,
      <<8168, 8169, 1, -8>>, <<8170, 8171, 1, -112>>, <<8172, 8172, 1, -7>>, <<8184, 8185, 1, -128>>,
      <<8186, 8187, 1, -126>>, <<8188, 8188, 1, -9>>, <<8486, 8486, 1, -7517>>, <<8498, 8498, 1, 28>>,
      <<8544, 8559, 1, 16>>, <<8579, 8579, 1, 1>>, <<9398, 9423, 1, 26>>, <<11264, 11311, 1, 48>>,
      <<11360, 11360, 1, 1>>, <<11362, 11362, 1, -10743>>, <<11363, 11363, 1, -3814>>, <<11364, 11364, 1, -10727>>,
      <<11367, 11371, 2, 1>>, <<11373, 11373, 1, -10780>>, <<11374, 11374, 1, -10749>>, <<11375, 11375, 1, -10783>>,
      <<11376, 11376, 1, -10782>>, <<11378, 11378, 1, 1>>, <<11381, 11381, 1, 1>>, <<11390, 11391, 1, -10815>>,
      <<11392, 11490, 2, 1>>, <<11499, 11501, 2, 1>>, <<11506, 11506, 1, 1>>, <<42560, 42604, 2, 1>>,
      <<42624, 42650, 2, 1>>, <<42786, 42798, 2, 1>>, <<42802, 42862, 2, 1>>, <<42873, 42875, 2, 1>>,
      <<42877, 42877, 1, -35332>>, <<42878, 42886, 2, 1>>, <<42891, 42891, 1, 1>>, <<42893, 42893, 1, -42280>>,
      <<42896, 42898, 2, 1>>, <<42902, 42920, 2, 1>>, <<42922, 42922, 1, -42308>>, <<42923, 42923, 1, -42319>>,
      <<42924, 42924, 1, -42315>>, <<42925, 42925, 1, -42305>>, <<42926, 42926, 1, -42308>>, <<42928, 42928, 1, -42258>>,
      <<42929, 42929, 1, -42282>>, <<42930, 42930, 1, -42261>>, <<42931, 42931, 1, 928>>, <<42932, 42946, 2, 1>>,
      <<42948, 42948, 1, -48>>, <<42949, 42949, 1, -42307>>, <<42950, 42950, 1, -35384>>, <<42951, 42953, 2, 1>>,
      <<42960, 42960, 1, 1>>, <<42966, 42968, 2, 1>>, <<42997, 42997, 1, 1>>, <<65313, 65338, 1, 32>>,
      <<66560, 66599, 1, 40>>, <<66736, 66771, 1, 40>>, <<66928, 66938, 1, 39>>, <<66940, 66954, 1, 39>>,
      <<66956, 66962, 1, 39>>, <<66964, 66965, 1, 39>>, <<68736, 68786, 1, 64>>, <<71840, 71871, 1, 32>>,
      <<93760, 93791, 1, 32>>, <<125184, 125217, 1, 34>>>>

\* <<first, last>>: the cased code points beyond U+00FF (the letters with a case:
\* upper, lower or title case)
CasedRanges ==
    <<<<256, 442>>, <<444, 447>>, <<452, 659>>, <<661, 696>>, <<704, 705>>, <<736, 740>>,
      <<837, 837>>, <<880, 883>>, <<886, 887>>, <<890, 893>>, <<895, 895>>, <<902, 902>>,
      <<904, 906>>, <<908, 908>>, <<910, 929>>, <<931, 1013>>, <<1015, 1153>>, <<1162, 1327>>,
      <<1329, 1366>>, <<1376, 1416>>, <<4256, 4293>>, <<4295, 4295>>, <<4301, 4301>>, <<4304, 4346>>,
      <<4349, 4351>>, <<5024, 5109>>, <<5112, 5117>>, <<7296, 7304>>, <<7312, 7354>>, <<7357, 7359>>,
      <<7424, 7615>>, <<7680, 7957>>, <<7960, 7965>>, <<7968, 8005>>, <<8008, 8013>>, <<8016, 8023>>,
      <<8025, 8025>>, <<8027, 8027>>, <<8029, 8029>>, <<8031, 8061>>, <<8064, 8116>>, <<8118, 8124>>,
      <<8126, 8126>>, <<8130, 8132>>, <<8134, 8140>>, <<8144, 8147>>, <<8150, 8155>>, <<8160, 8172>>,
      <<8178, 8180>>, <<8182, 8188>>, <<8305, 8305>>, <<8319, 8319>>, <<8336, 8348>>, <<8450, 8450>>,
      <<8455, 8455>>, <<8458, 8467>>, <<8469, 8469>>, <<8473, 8477>>, <<8484, 8484>>, <<8486, 8486>>,
      <<8488, 8488>>, <<8490, 8493>>, <<8495, 8500>>, <<8505, 8505>>, <<8508, 8511>>, <<8517, 8521>>,
      <<8526, 8526>>, <<8544, 8575>>, <<8579, 8580>>, <<9398, 9449>>, <<11264, 11492>>, <<11499, 11502>>,
      <<11506, 11507>>, <<11520, 11557>>, <<11559, 11559>>, <<11565, 11565>>, <<42560, 42605>>, <<42624, 42653>>,
      <<42786, 42887>>, <<42891, 42894>>, <<42896, 42954>>, <<42960, 42961>>, <<42963, 42963>>, <<42965, 42969>>,
      <<42997, 42998>>, <<43000, 43002>>, <<43824, 43866>>, <<43868, 43880>>, <<43888, 43967>>, <<64256, 64262>>,
      <<64275, 64279>>, <<65313, 65338>>, <<65345, 65370>>, <<66560, 66639>>, <<66736, 66771>>, <<66776, 66811>>,
      <<66928, 66938>>, <<66940, 66954>>, <<66956, 66962>>, <<66964, 66965>>, <<66967, 66977>>, <<66979, 66993>>,
      <<66995, 67001>>, <<67003, 67004>>, <<67456, 67456>>, <<67459, 67461>>, <<67463, 67504>>, <<67506, 67514>>,
      <<68736, 68786>>, <<68800, 68850>>, <<71840, 71903>>, <<93760, 93823>>, <<119808, 119892>>, <<119894, 119964>>,
      <<119966, 119967>>, <<119970, 119970>>, <<119973, 119974>>, <<119977, 119980>>, <<119982, 119993>>, <<119995, 119995>>,
      <<119997, 120003>>, <<120005, 120069>>, <<120071, 120074>>, <<120077, 120084>>, <<120086, 120092>>, <<120094, 120121>>,
      <<120123, 120126>>, <<120128, 120132>>, <<120134, 120134>>, <<120138, 120144>>, <<120146, 120485>>, <<120488, 120512>>,
      <<120514, 120538>>, <<120540, 120570>>, <<120572, 120596>>, <<120598, 120628>>, <<120630, 120654>>, <<120656, 120686>>,
      <<120688, 120712>>, <<120714, 120744>>, <<120746, 120770>>, <<120772, 120779>>, <<122624, 122633>>, <<122635, 122654>>,
      <<125184, 125251>>, <<127280, 127305>>, <<127312, 127337>>, <<127344, 127369>>>>

\* <<first, last>>: the case-ignorable code points beyond U+00FF (combining
\* marks, modifier letters, format characters)
CaseIgnorableRanges ==
    <<<<688, 879>>, <<884, 885>>, <<890, 890>>, <<900, 901>>, <<903, 903>>, <<1155, 1161>>,
      <<1369, 1369>>, <<1375, 1375>>, <<1425, 1469>>, <<1471, 1471>>, <<1473, 1474>>, <<1476, 1477>>,
      <<1479, 1479>>, <<1524, 1524>>, <<1536, 1541>>, <<1552, 1562>>, <<1564, 1564>>, <<1600, 1600>>,
      <<1611, 1631>>, <<1648, 1648>>, <<1750, 1757>>, <<1759, 1768>>, <<1770, 1773>>, <<1807, 1807>>,
      <<1809, 1809>>, <<1840, 1866>>, <<1958, 1968>>, <<2027, 2037>>, <<2042, 2042>>, <<2045, 2045>>,
      <<2070, 2093>>, <<2137, 2139>>, <<2184, 2184>>, <<2192, 2193>>, <<2200, 2207>>, <<2249, 2306>>,
      <<2362, 2362>>, <<2364, 2364>>, <<2369, 2376>>, <<2381, 2381>>, <<2385, 2391>>, <<2402, 2403>>,
      <<2417, 2417>>, <<2433, 2433>>, <<2492, 2492>>, <<2497, 2500>>, <<2509, 2509>>, <<2530, 2531>>,
      <<2558, 2558>>, <<2561, 2562>>, <<2620, 2620>>, <<2625, 2626>>, <<2631, 2632>>, <<2635, 2637>>,
      <<2641, 2641>>, <<2672, 2673>>, <<2677, 2677>>, <<2689, 2690>>, <<2748, 2748>>, <<2753, 2757>>,
      <<2759, 2760>>, <<2765, 2765>>, <<2786, 2787>>, <<2810, 2815>>, <<2817, 2817>>, <<2876, 2876>>,
      <<2879, 2879>>, <<2881, 2884>>, <<2893, 2893>>, <<2901, 2902>>, <<2914, 2915>>, <<2946, 2946>>,
      <<3008, 3008>>, <<3021, 3021>>, <<3072, 3072>>, <<3076, 3076>>, <<3132, 3132>>, <<3134, 3136>>,
      <<3142, 3144>>, <<3146, 3149>>, <<3157, 3158>>, <<3170, 3171>>, <<3201, 3201>>, <<3260, 3260>>,
      <<3263, 3263>>, <<3270, 3270>>, <<3276, 3277>>, <<3298, 3299>>, <<3328, 3329>>, <<3387, 3388>>,
      <<3393, 3396>>, <<3405, 3405>>, <<3426, 3427>>, <<3457, 3457>>, <<3530, 3530>>, <<3538, 3540>>,
      <<3542, 3542>>, <<3633, 3633>>, <<3636, 3642>>, <<3654, 3662>>, <<3761, 3761>>, <<3764, 3772>>,
      <<3782, 3782>>, <<3784, 3789>>, <<3864, 3865>>, <<3893, 3893>>, <<3895, 3895>>, <<3897, 3897>>,
      <<3953, 3966>>, <<3968, 3972>>, <<3974, 3975>>, <<3981, 3991>>, <<3993, 4028>>, <<4038, 4038>>,
      <<4141, 4144>>, <<4146, 4151>>, <<4153, 4154>>, <<4157, 4158>>, <<4184, 4185>>, <<4190, 4192>>,
      <<4209, 4212>>, <<4226, 4226>>, <<4229, 4230>>, <<4237, 4237>>, <<4253, 4253>>, <<4348, 4348>>,
      <<4957, 4959>>, <<5906, 5908>>, <<5938, 5939>>, <<5970, 5971>>, <<6002, 6003>>, <<6068, 6069>>,
      <<6071, 6077>>, <<6086, 6086>>, <<6089, 6099>>, <<6103, 6103>>, <<6109, 6109>>, <<6155, 6159>>,
      <<6211, 6211>>, <<6277, 6278>>, <<6313, 6313>>, <<6432, 6434>>, <<6439, 6440>>, <<6450, 6450>>,
      <<6457, 6459>>, <<6679, 6680>>, <<6683, 6683>>, <<6742, 6742>>, <<6744, 6750>>, <<6752, 6752>>,
      <<6754, 6754>>, <<6757, 6764>>, <<6771, 6780>>, <<6783, 6783>>, <<6823, 6823>>, <<6832, 6862>>,
      <<6912, 6915>>, <<6964, 6964>>, <<6966, 6970>>, <<6972, 6972>>, <<6978, 6978>>, <<7019, 7027>>,
      <<7040, 7041>>, <<7074, 7077>>, <<7080, 7081>>, <<7083, 7085>>, <<7142, 7142>>, <<7144, 7145>>,
      <<7149, 7149>>, <<7151, 7153>>, <<7212, 7219>>, <<7222, 7223>>, <<7288, 7293>>, <<7376, 7378>>,
      <<7380, 7392>>, <<7394, 7400>>, <<7405, 7405>>, <<7412, 7412>>, <<7416, 7417>>, <<7468, 7530>>,
      <<7544, 7544>>, <<7579, 7679>>, <<8125, 8125>>, <<8127, 8129>>, <<8141, 8143>>, <<8157, 8159>>,
      <<8173, 8175>>, <<8189, 8190>>, <<8203, 8207>>, <<8216, 8217>>, <<8228, 8228>>, <<8231, 8231>>,
      <<8234, 8238>>, <<8288, 8292>>, <<8294, 8303>>, <<8305, 8305>>, <<8319, 8319>>, <<8336, 8348>>,
      <<8400, 8432>>, <<11388, 11389>>, <<11503, 11505>>, <<11631, 11631>>, <<11647, 11647>>, <<11744, 11775>>,
      <<11823, 11823>>, <<12293, 12293>>, <<12330, 12333>>, <<12337, 12341>>, <<12347, 12347>>, <<12441, 12446>>,
      <<12540, 12542>>, <<40981, 40981>>, <<42232, 42237>>, <<42508, 42508>>, <<42607, 42610>>, <<42612, 42621>>,
      <<42623, 42623>>, <<42652, 42655>>, <<42736, 42737>>, <<42752, 42785>>, <<42864, 42864>>, <<42888, 42890>>,
      <<42994, 42996>>, <<43000, 43001>>, <<43010, 43010>>, <<43014, 43014>>, <<43019, 43019>>, <<43045, 43046>>,
      <<43052, 43052>>, <<43204, 43205>>, <<43232, 43249>>, <<43263, 43263>>, <<43302, 43309>>, <<43335, 43345>>,
      <<43392, 43394>>, <<43443, 43443>>, <<43446, 43449>>, <<43452, 43453>>, <<43471, 43471>>, <<43493, 43494>>,
      <<43561, 43566>>, <<43569, 43570>>, <<43573, 43574>>, <<43587, 43587>>, <<43596, 43596>>, <<43632, 43632>>,
      <<43644, 43644>>, <<43696, 43696>>, <<43698, 43700>>, <<43703, 43704>>, <<43710, 43711>>, <<43713, 43713>>,
      <<43741, 43741>>, <<43756, 43757>>, <<43763, 43764>>, <<43766, 43766>>, <<43867, 43871>>, <<43881, 43883>>,
      <<44005, 44005>>, <<44008, 44008>>, <<44013, 44013>>, <<64286, 64286>>, <<64434, 64450>>, <<65024, 65039>>,
      <<65043, 65043>>, <<65056, 65071>>, <<65106, 65106>>, <<65109, 65109>>, <<65279, 65279>>, <<65287, 65287>>,
      <<65294, 65294>>, <<65306, 65306>>, <<65342, 65342>>, <<65344, 65344>>, <<65392, 65392>>, <<65438, 65439>>,
      <<65507, 65507>>, <<65529, 65531>>, <<66045, 66045>>, <<66272, 66272>>, <<66422, 66426>>, <<67456, 67461>>,
      <<67463, 67504>>, <<67506, 67514>>, <<68097, 68099>>, <<68101, 68102>>, <<68108, 68111>>, <<68152, 68154>>,
      <<68159, 68159>>, <<68325, 68326>>, <<68900, 68903>>, <<69291, 69292>>, <<69446, 69456>>, <<69506, 69509>>,
      <<69633, 69633>>, <<69688, 69702>>, <<69744, 69744>>, <<69747, 69748>>, <<69759, 69761>>, <<69811, 69814>>,
      <<69817, 69818>>, <<69821, 69821>>, <<69826, 69826>>, <<69837, 69837>>, <<69888, 69890>>, <<69927, 69931>>,
      <<69933, 69940>>, <<70003, 70003>>, <<70016, 70017>>, <<70070, 70078>>, <<70089, 70092>>, <<70095, 70095>>,
      <<70191, 70193>>, <<70196, 70196>>, <<70198, 70199>>, <<70206, 70206>>, <<70367, 70367>>, <<70371, 70378>>,
      <<70400, 70401>>, <<70459, 70460>>, <<70464, 70464>>, <<70502, 70508>>, <<70512, 70516>>, <<70712, 70719>>,
      <<70722, 70724>>, <<70726, 70726>>, <<70750, 70750>>, <<70835, 70840>>, <<70842, 70842>>, <<70847, 70848>>,
      <<70850, 70851>>, <<71090, 71093>>, <<71100, 71101>>, <<71103, 71104>>, <<71132, 71133>>, <<71219, 71226>>,
      <<71229, 71229>>, <<71231, 71232>>, <<71339, 71339>>, <<71341, 71341>>, <<71344, 71349>>, <<71351, 71351>>,
      <<71453, 71455>>, <<71458, 71461>>, <<71463, 71467>>, <<71727, 71735>>, <<71737, 71738>>, <<71995, 71996>>,
      <<71998, 71998>>, <<72003, 72003>>, <<72148, 72151>>, <<72154, 72155>>, <<72160, 72160>>, <<72193, 72202>>,
      <<72243, 72248>>, <<72251, 72254>>, <<72263, 72263>>, <<72273, 72278>>, <<72281, 72283>>, <<72330, 72342>>,
      <<72344, 72345>>, <<72752, 72758>>, <<72760, 72765>>, <<72767, 72767>>, <<72850, 72871>>, <<72874, 72880>>,
      <<72882, 72883>>, <<72885, 72886>>, <<73009, 73014>>, <<73018, 73018>>, <<73020, 73021>>, <<73023, 73029>>,
      <<73031, 73031>>, <<73104, 73105>>, <<73109, 73109>>, <<73111, 73111>>, <<73459, 73460>>, <<78896, 78904>>,
      <<92912, 92916>>, <<92976, 92982>>, <<92992, 92995>>, <<94031, 94031>>, <<94095, 94111>>, <<94176, 94177>>,
      <<94179, 94180>>, <<110576, 110579>>, <<110581, 110587>>, <<110589, 110590>>, <<113821, 113822>>, <<113824, 113827>>,
      <<118528, 118573>>, <<118576, 118598>>, <<119143, 119145>>, <<119155, 119170>>, <<119173, 119179>>, <<119210, 119213>>,
      <<119362, 119364>>, <<121344, 121398>>, <<121403, 121452>>, <<121461, 121461>>, <<121476, 121476>>, <<121499, 121503>>,
      <<121505, 121519>>, <<122880, 122886>>, <<122888, 122904>>, <<122907, 122913>>, <<122915, 122916>>, <<122918, 122922>>,
      <<123184, 123197>>, <<123566, 123566>>, <<123628, 123631>>, <<125136, 125142>>, <<125252, 125259>>, <<127995, 127999>>,
      <<917505, 917505>>, <<917536, 917631>>, <<917760, 917999>>>>

\* the four characters beyond U+00FF whose lower case is within Latin-1
LowerIntoLatin1 == <<<<"U+0178", "ÿ">>, <<"U+1E9E", "ß">>,
                     <<"U+212A", "k">>, <<"U+212B", "å">>>>

\* the cased and the case-ignorable characters up to U+00FF
CasedLatin1 ==
    {UpperCase[i] : i \in 1..Len(UpperCase)} \cup {LowerCase[i] : i \in 1..Len(LowerCase)}
        \cup {"ª", "µ", "º", "ß", "ÿ"}
CaseIgnorableLatin1 == {"'", ".", ":", "^", "U+0060", "¨", "­", "¯", "´", "·", "¸"}

Among(n, ranges) == \E i \in 1..Len(ranges) : ranges[i][1] <= n /\ n <= ranges[i][2]

\* _PyUnicode_IsCased and _PyUnicode_IsCaseIgnorable of the interpreter
IsCased(c) == IF Named(c) THEN Among(CodePoint(c), CasedRanges) ELSE c \in CasedLatin1
IsCaseIgnorable(c) ==
    \/ c \in CaseIgnorableLatin1
    \/ Named(c) /\ Among(CodePoint(c), CaseIgnorableRanges)

\* the lower case of a character written by its code point, other than U+0130
LowerBeyond(c) ==
    LET n == CodePoint(c)
        group == {i \in 1..Len(LowerRanges) :
                     /\ LowerRanges[i][1] <= n
                     /\ n <= LowerRanges[i][2]
                     /\ (n - LowerRanges[i][1]) % LowerRanges[i][3] = 0}
        latin == {i \in 1..Len(LowerIntoLatin1) : LowerIntoLatin1[i][1] = c}
    IN  IF latin # {} THEN LowerIntoLatin1[CHOOSE i \in latin : TRUE][2]
        ELSE IF group # {} THEN Chr(n + LowerRanges[CHOOSE i \in group : TRUE][4])
        ELSE c

\* str.lower() of one character, which may give two: U+0130 gives "i" and
\* U+0307.  A capital sigma on its own gives U+03C3 (LowerRanges); within a
\* string its lower case depends on its neighbours (LowerStr).
Lower(c) ==
    IF c = "U+0130" THEN <<"i", "U+0307">>
    ELSE IF Named(c) THEN <<LowerBeyond(c)>>
    ELSE IF \E i \in 1..Len(UpperCase) : UpperCase[i] = c
    THEN <<LowerCase[CHOOSE i \in 1..Len(UpperCase) : UpperCase[i] = c]>>
    ELSE <<c>>

\* the nearest character to the left of j, j included, that is not
\* case-ignorable is a cased one
RECURSIVE CasedBefore(_, _)
CasedBefore(s, j) ==
    IF j < 1 THEN FALSE
    ELSE IF IsCaseIgnorable(s[j]) THEN CasedBefore(s, j - 1)
    ELSE IsCased(s[j])

\* the same to the right
RECURSIVE CasedAfter(_, _)
CasedAfter(s, j) ==
    IF j > Len(s) THEN FALSE
    ELSE IF IsCaseIgnorable(s[j]) THEN CasedAfter(s, j + 1)
    ELSE IsCased(s[j])

\* the capital sigma at s[i] ends a word: a cased letter before it, none after
FinalSigma(s, i) == CasedBefore(s, i - 1) /\ ~CasedAfter(s, i + 1)

RECURSIVE LStrip(_)
LStrip(s) == IF s # <<>> /\ Head(s) \in Whitespace THEN LStrip(Tail(s)) ELSE s

RECURSIVE RStrip(_)
RStrip(s) ==
    IF s # <<>> /\ s[Len(s)] \in Whitespace THEN RStrip(SubSeq(s, 1, Len(s) - 1)) ELSE s

\* str.strip()
Strip(s) == RStrip(LStrip(s))

\* str.lower()
RECURSIVE LowerFrom(_, _)
LowerFrom(s, i) ==
    IF i > Len(s) THEN <<>>
    ELSE (IF s[i] = "U+03A3"
          THEN <<IF FinalSigma(s, i) THEN "U+03C2" ELSE "U+03C3">>
          ELSE Lower(s[i])) \o LowerFrom(s, i + 1)

LowerStr(s) == LowerFrom(s, 1)

\* s.replace("\n", ", ")
RECURSIVE ReplaceNewlines(_)
ReplaceNewlines(s) ==
    IF s = <<>> THEN <<>>
    ELSE IF Head(s) = "\n" THEN <<",", " ">> \o ReplaceNewlines(Tail(s))
    ELSE <<Head(s)>> \o ReplaceNewlines(Tail(s))

\* " ".join(s.split()): runs of whitespace become one space, none at the ends
RECURSIVE CollapseFrom(_, _)
CollapseFrom(s, pendingSpace) ==
    IF s = <<>> THEN <<>>
    ELSE IF Head(s) \in Whitespace THEN CollapseFrom(Tail(s), TRUE)
    ELSE (IF pendingSpace THEN <<" ">> ELSE <<>>) \o <<Head(s)>>
             \o CollapseFrom(Tail(s), FALSE)

CollapseWhitespace(s) == CollapseFrom(LStrip(s), FALSE)

\* normalize_string without .lower()
normalize_string_CaseSensitive(s) == CollapseWhitespace(ReplaceNewlines(Strip(s)))

normalize_string(s) == CollapseWhitespace(ReplaceNewlines(LowerStr(Strip(s))))

Digit(i) == <<"0", "1", "2", "3", "4", "5", "6", "7", "8", "9">>[i + 1]
TwoDigits(i) == <<Digit(i \div 10), Digit(i % 10)>>
FourDigits(i) == TwoDigits(i \div 100) \o TwoDigits(i % 100)

\* date.isoformat(): YYYY-MM-DD
isoformat(d) == FourDigits(d[1]) \o <<"-">> \o TwoDigits(d[2]) \o <<"-">> \o TwoDigits(d[3])

\* normalize_date: a date gives its ISO form, a string is stripped
normalize_date(x) == IF IsDate(x) THEN isoformat(x.v) ELSE Strip(x.v)

\* the date test accepting date objects only
LooksLikeDate_NativeOnly(x) == IsDate(x)

\* a date object, or a string of exactly 10 characters with "-" at index 4
LooksLikeDate(x) == IsDate(x) \/ (IsStr(x) /\ Len(x.v) = 10 /\ x.v[5] = "-")

-----------------------------------------------------------------------------
(* Natural numbers of any size, as little-endian sequences of limbs below   *)
(* LimbBase with no leading zero limb (the empty sequence is 0).  They carry *)
(* the 53-bit significands of Python floats and their exact products,       *)
(* quotients and aligned sums.                                              *)

LimbBits == 15
LimbBase == 32768

\* 2^0, ..., 2^14
LimbPowers == <<1, 2, 4, 8, 16, 32, 64, 128, 256, 512, 1024, 2048, 4096, 8192, 16384>>

RECURSIVE Pow2(_)
Pow2(k) == IF k < LimbBits THEN LimbPowers[k + 1] ELSE LimbBase * Pow2(k - LimbBits)

\* the number of bits of 1, ..., 15
NibbleBits == <<1, 2, 2, 3, 3, 3, 3, 4, 4, 4, 4, 4, 4, 4, 4>>

\* the number of bits of n >= 0, four at a time
RECURSIVE SmallBitLen(_)
SmallBitLen(n) ==
    IF n = 0 THEN 0
    ELSE IF n >= 16 THEN 4 + SmallBitLen(n \div 16)
    ELSE NibbleBits[n]

Rest(x) == IF x = <<>> THEN <<>> ELSE Tail(x)
Low(x) == IF x = <<>> THEN 0 ELSE Head(x)

RECURSIVE BNorm(_)
BNorm(x) == IF x # <<>> /\ x[Len(x)] = 0 THEN BNorm(SubSeq(x, 1, Len(x) - 1)) ELSE x

RECURSIVE BFromInt(_)
BFromInt(n) == IF n = 0 THEN <<>> ELSE <<n % LimbBase>> \o BFromInt(n \div LimbBase)

BitLen(x) == IF x = <<>> THEN 0 ELSE LimbBits * (Len(x) - 1) + SmallBitLen(x[Len(x)])

RECURSIVE BAddC(_, _, _)
BAddC(x, y, carry) ==
    IF x = <<>> /\ y = <<>> THEN (IF carry = 0 THEN <<>> ELSE <<carry>>)
    ELSE LET s == Low(x) + Low(y) + carry
         IN <<s % LimbBase>> \o BAddC(Rest(x), Rest(y), s \div LimbBase)

BAdd(x, y) == BAddC(x, y, 0)

\* x - y for x >= y
RECURSIVE BSubB(_, _, _)
BSubB(x, y, borrow) ==
    IF x = <<>> THEN <<>>
    ELSE LET d == Low(x) - Low(y) - borrow
         IN IF d < 0 THEN <<d + LimbBase>> \o BSubB(Rest(x), Rest(y), 1)
            ELSE <<d>> \o BSubB(Rest(x), Rest(y), 0)

BSub(x, y) == BNorm(BSubB(x, y, 0))

\* -1, 0 or 1 as x < y, x = y or x > y, comparing limbs i, i-1, ..., 1 of
\* two numbers of the same length
RECURSIVE BCmpFrom(_, _, _)
BCmpFrom(x, y, i) ==
    IF i = 0 THEN 0
    ELSE IF x[i] < y[i] THEN -1
    ELSE IF x[i] > y[i] THEN 1
    ELSE BCmpFrom(x, y, i - 1)

BCmp(x, y) ==
    IF Len(x) < Len(y) THEN -1
    ELSE IF Len(x) > Len(y) THEN 1
    ELSE BCmpFrom(x, y, Len(x))

\* x * s + carry for 0 <= s < LimbBase
RECURSIVE BMulSmallC(_, _, _)
BMulSmallC(x, s, carry) ==
    IF x = <<>> THEN (IF carry = 0 THEN <<>> ELSE <<carry>>)
    ELSE LET p == Head(x) * s + carry
         IN <<p % LimbBase>> \o BMulSmallC(Tail(x), s, p \div LimbBase)

BMulSmall(x, s) == IF s = 0 THEN <<>> ELSE BMulSmallC(x, s, 0)

\* x * LimbBase^q
ShiftLimbs(x, q) == IF x = <<>> THEN <<>> ELSE [i \in 1..q |-> 0] \o x

\* x * (limbs i, ..., 1 of y) + acc * LimbBase^i, from the highest limb of y down
RECURSIVE BMulFrom(_, _, _, _)
BMulFrom(x, y, i, acc) ==
    IF i = 0 THEN acc
    ELSE IF acc = <<>> THEN BMulFrom(x, y, i - 1, BMulSmall(x, y[i]))
    ELSE BMulFrom(x, y, i - 1, BAdd(BMulSmall(x, y[i]), ShiftLimbs(acc, 1)))

BMul(x, y) == BMulFrom(x, y, Len(y), <<>>)

\* x * 2^k
BShl(x, k) ==
    IF k = 0 THEN x
    ELSE IF k % LimbBits = 0 THEN ShiftLimbs(x, k \div LimbBits)
    ELSE ShiftLimbs(BMulSmall(x, Pow2(k % LimbBits)), k \div LimbBits)

\* quotient (leading zero limbs not yet removed) and remainder of x by 0 < s < LimbBase
RECURSIVE BDivModSmallRaw(_, _)
BDivModSmallRaw(x, s) ==
    IF x = <<>> THEN [q |-> <<>>, r |-> 0]
    ELSE LET hi == BDivModSmallRaw(Tail(x), s)
             cur == hi.r * LimbBase + Head(x)
         IN [q |-> <<cur \div s>> \o hi.q, r |-> cur % s]

BDivModSmall(x, s) ==
    LET raw == BDivModSmallRaw(x, s) IN [q |-> BNorm(raw.q), r |-> raw.r]

\* x mod 2^k
BLowBits(x, k) ==
    IF k \div LimbBits >= Len(x) THEN x
    ELSE BNorm(SubSeq(x, 1, k \div LimbBits) \o <<x[k \div LimbBits + 1] % Pow2(k % LimbBits)>>)

\* floor(x / 2^k)
BShr(x, k) ==
    IF k \div LimbBits >= Len(x) THEN <<>>
    ELSE BDivModSmall(SubSeq(x, k \div LimbBits + 1, Len(x)), Pow2(k % LimbBits)).q

\* the value of a number of at most two limbs
SmallValue(x) == IF Len(x) < 2 THEN Low(x) ELSE x[1] + LimbBase * x[2]

\* the leading bits of x: floor(x / 2^(BitLen(x) - k)), or x if it has at most k bits
LeadingBits(x, k) == SmallValue(BShr(x, IF BitLen(x) > k THEN BitLen(x) - k ELSE 0))

\* a limb that is at least floor(r / y) and above it by a few units at most, from
\* the 30 leading bits of r and the 15 leading bits of y > 0
LimbEstimate(r, y) ==
    LET s == (IF BitLen(r) > 2 * LimbBits THEN BitLen(r) - 2 * LimbBits ELSE 0)
                 - (IF BitLen(y) > LimbBits THEN BitLen(y) - LimbBits ELSE 0)
        q == (LeadingBits(r, 2 * LimbBits) + 1) \div LeadingBits(y, LimbBits)
    IN IF s > 0 THEN LimbBase - 1
       ELSE IF s < -2 * LimbBits THEN 0
       ELSE Min(LimbBase - 1, q \div Pow2(-s))

\* the largest d <= guess with y * d <= r
RECURSIVE QuotientLimb(_, _, _)
QuotientLimb(r, y, guess) ==
    IF BCmp(BMulSmall(y, guess), r) <= 0 THEN guess ELSE QuotientLimb(r, y, guess - 1)

\* one step of the long division by y > 0: the limb of the quotient and the
\* remainder left, from the quotient and remainder hi of the limbs above
DivStep(hi, limb, y) ==
    IF hi.r = <<>> /\ limb = 0 THEN [q |-> <<0>> \o hi.q, r |-> <<>>]
    ELSE LET cur == BNorm(<<limb>> \o hi.r)
             d == QuotientLimb(cur, y, LimbEstimate(cur, y))
         IN [q |-> <<d>> \o hi.q, r |-> BSub(cur, BMulSmall(y, d))]

\* long division by y > 0, one limb of x at a time from the highest
RECURSIVE BDivModRaw(_, _)
BDivModRaw(x, y) ==
    IF x = <<>> THEN [q |-> <<>>, r |-> <<>>]
    ELSE DivStep(BDivModRaw(Tail(x), y), Head(x), y)

\* quotient and remainder of x by y > 0
BDivMod(x, y) ==
    LET raw == BDivModRaw(x, y) IN [q |-> BNorm(raw.q), r |-> raw.r]

\* the largest d in lo..hi with d * d <= c, by bisection
RECURSIVE SmallSqrt(_, _, _)
SmallSqrt(c, lo, hi) ==
    IF lo = hi THEN lo
    ELSE LET mid == (lo + hi + 1) \div 2
         IN IF mid * mid <= c THEN SmallSqrt(c, mid, hi) ELSE SmallSqrt(c, lo, mid - 1)

\* the largest d <= guess with (twice + d) * d <= r
RECURSIVE RootLimb(_, _, _)
RootLimb(r, twice, guess) ==
    IF BCmp(BMulSmall(BAdd(twice, <<guess>>), guess), r) <= 0 THEN guess
    ELSE RootLimb(r, twice, guess - 1)

\* one step of the square root: the limb of the root and the remainder left, from
\* the root and remainder hi of the limbs above and the next two limbs
SqrtStep(hi, lo, mid) ==
    IF hi.root = <<>>
    THEN LET d == SmallSqrt(lo + LimbBase * mid, 0, LimbBase - 1)
         IN [root |-> BFromInt(d), rem |-> BFromInt(lo + LimbBase * mid - d * d)]
    ELSE LET cur == BNorm(<<lo, mid>> \o hi.rem)
             twice == ShiftLimbs(BMulSmall(hi.root, 2), 1)
             d == RootLimb(cur, twice, LimbEstimate(cur, twice))
         IN [root |-> <<d>> \o hi.root,
             rem |-> BSub(cur, BMulSmall(BAdd(twice, <<d>>), d))]

\* floor(sqrt(x)) and x - floor(sqrt(x))^2 for x of an even number of limbs, two
\* limbs of x for one limb of the root from the highest
RECURSIVE BSqrtRem(_)
BSqrtRem(x) ==
    IF x = <<>> THEN [root |-> <<>>, rem |-> <<>>]
    ELSE SqrtStep(BSqrtRem(SubSeq(x, 3, Len(x))), x[1], x[2])

\* the even number of bits by which x is shifted for its square root: it then
\* has an even number of limbs, the highest two at least 2^28, so that the highest
\* limb of the root is at least 2^14 and LimbEstimate is within a few units of
\* every later limb
EvenShift(x) ==
    LET gap == (2 * LimbBits - (BitLen(x) % (2 * LimbBits))) % (2 * LimbBits)
    IN gap - (gap % 2)

\* floor(sqrt(x * 2^EvenShift(x))) and what is left of x * 2^EvenShift(x)
BSqrt(x) == BSqrtRem(BShl(x, EvenShift(x)))

-----------------------------------------------------------------------------
(* Python floats: IEEE-754 binary64, round to nearest, ties to even.  A     *)
(* finite non-zero float is sign * m * 2^e with 2^52 <= m < 2^53, below      *)
(* 2^1024; a result at or above 2^1024 is inf, inf - inf is nan.  Subnormals *)
(* and the sign of zero are out of the range of the values met.             *)

MantissaBits == 53
\* extra quotient bits kept by a division before rounding
GuardBits == 3

F64Zero == [sign |-> 1, m |-> <<>>, e |-> 0]
F64IsZero(a) == a.m = <<>>

\* inf and -inf, held as a magnitude above every finite float; nan, which has
\* no sign
F64Inf(sign) == [sign |-> sign, m |-> <<1>>, e |-> 2000]
F64NaN == [sign |-> 0, m |-> <<1>>, e |-> 0]
F64IsNaN(a) == a.sign = 0
F64IsInf(a) == a.e = 2000

\* a rounded result at or above 2^1024 overflows to inf
F64Overflow(r) == IF r.e + MantissaBits > 1024 THEN F64Inf(r.sign) ELSE r

\* the float nearest to sign * (X + t) * 2^e, where 0 <= t < 1 and t > 0 iff sticky;
\* a sticky X has more than MantissaBits bits
F64Nearest(sign, X, e, sticky) ==
    IF X = <<>> THEN F64Zero
    ELSE LET bl == BitLen(X)
         IN IF bl <= MantissaBits
            THEN [sign |-> sign, m |-> BShl(X, MantissaBits - bl), e |-> e - (MantissaBits - bl)]
            ELSE LET s == bl - MantissaBits
                     q == BShr(X, s)
                     rem == BLowBits(X, s)
                     c == BCmp(rem, BShl(<<1>>, s - 1))
                     up == c > 0 \/ (c = 0 /\ (sticky \/ Low(q) % 2 = 1))
                     m == IF up THEN BAdd(q, <<1>>) ELSE q
                 IN IF BitLen(m) > MantissaBits
                    THEN [sign |-> sign, m |-> BShr(m, 1), e |-> e + s + 1]
                    ELSE [sign |-> sign, m |-> m, e |-> e + s]

\* the float nearest to sign * (X + t) * 2^e, or inf past the largest float
F64Round(sign, X, e, sticky) == F64Overflow(F64Nearest(sign, X, e, sticky))

\* n / d correctly rounded, for an int n and 0 < d < LimbBase: int / int, and
\* float() of the decimal value n / d
F64FromQuot(n, d) ==
    IF n = 0 THEN F64Zero
    ELSE LET a == Abs(n)
             k == MantissaBits + GuardBits + SmallBitLen(d) - SmallBitLen(a)
             dm == BDivModSmall(BShl(BFromInt(a), k), d)
         IN F64Round(IF n < 0 THEN -1 ELSE 1, dm.q, -k, dm.r # 0)

\* float(n) of an int
F64FromInt(n) == F64FromQuot(n, 1)

\* the literal 1.0
F64One == F64FromInt(1)

F64Neg(a) == IF F64IsZero(a) THEN a ELSE [a EXCEPT !.sign = -a.sign]
F64Abs(a) == IF F64IsNaN(a) THEN a ELSE [a EXCEPT !.sign = 1]

\* -1, 0, 1 comparing |a| with |b|
F64MagCmp(a, b) ==
    IF a.m = <<>> \/ b.m = <<>> THEN BCmp(a.m, b.m)
    ELSE IF BitLen(a.m) + a.e < BitLen(b.m) + b.e THEN -1
    ELSE IF BitLen(a.m) + a.e > BitLen(b.m) + b.e THEN 1
    ELSE BCmp(BShl(a.m, a.e - Min(a.e, b.e)), BShl(b.m, b.e - Min(a.e, b.e)))

\* a < b; every comparison with nan is false
F64Less(a, b) ==
    IF F64IsNaN(a) \/ F64IsNaN(b) THEN FALSE
    ELSE IF a.sign # b.sign THEN a.sign < b.sign
    ELSE IF a.sign = 1 THEN F64MagCmp(a, b) < 0
    ELSE F64MagCmp(a, b) > 0

\* a + b
F64Add(a, b) ==
    IF F64IsNaN(a) \/ F64IsNaN(b) THEN F64NaN
    ELSE IF F64IsInf(a) /\ F64IsInf(b) /\ a.sign # b.sign THEN F64NaN
    ELSE IF F64IsInf(a) THEN a
    ELSE IF F64IsInf(b) THEN b
    ELSE IF F64IsZero(a) THEN b
    ELSE IF F64IsZero(b) THEN a
    ELSE LET e == Min(a.e, b.e)
             A == BShl(a.m, a.e - e)
             B == BShl(b.m, b.e - e)
             c == BCmp(A, B)
         IN IF a.sign = b.sign THEN F64Round(a.sign, BAdd(A, B), e, FALSE)
            ELSE IF c = 0 THEN F64Zero
            ELSE IF c > 0 THEN F64Round(a.sign, BSub(A, B), e, FALSE)
            ELSE F64Round(b.sign, BSub(B, A), e, FALSE)

\* a - b
F64Sub(a, b) == F64Add(a, F64Neg(b))

\* a * b
F64Mul(a, b) ==
    IF F64IsZero(a) \/ F64IsZero(b) THEN F64Zero
    ELSE F64Round(a.sign * b.sign, BMul(a.m, b.m), a.e + b.e, FALSE)

\* a / b for b # 0
F64Div(a, b) ==
    IF F64IsZero(a) THEN F64Zero
    ELSE LET k == MantissaBits + GuardBits
             dm == BDivMod(BShl(a.m, k), b.m)
         IN F64Round(a.sign * b.sign, dm.q, a.e - b.e - k, dm.r # <<>>)

\* a * 2^k: exact, or inf past the largest float
F64Scale(a, k) == IF F64IsZero(a) THEN a ELSE F64Overflow([a EXCEPT !.e = @ + k])

\* float(x) of an int, float or Decimal whose decimal value is x.v thousandths,
\* times 2^shift for a Decimal built from a large integer
Thousand == 1000
float(x) ==
    IF "shift" \in DOMAIN x
    THEN F64Scale(F64FromQuot(x.v, Thousand), x.shift)
    ELSE F64FromQuot(x.v, Thousand)

\* the literal 0.01
Tolerance == F64FromQuot(1, 100)

\* the comparison made on the decimal values, without conversion to float
NumericMatch_Exact(e, p) == Abs(e.v - p.v) < 10

\* the difference taken without abs(): a prediction above the expectation
\* always matches
NumericMatch_OneSided(e, p) == F64Less(F64Sub(float(e), float(p)), Tolerance)

\* abs(float(expected) - float(predicted)) < 0.01
NumericMatch(e, p) == F64Less(F64Abs(F64Sub(float(e), float(p))), Tolerance)

\* a null on either side taken as matching anything
calculate_field_match_NullMatchesAll(expected, predicted) ==
    IF IsNone(expected) \/ IsNone(predicted) THEN TRUE
    ELSE IF IsNumeric(expected) /\ IsNumeric(predicted) THEN NumericMatch(expected, predicted)
    ELSE IF LooksLikeDate(expected) /\ LooksLikeDate(predicted)
        THEN normalize_date(expected) = normalize_date(predicted)
    ELSE IF IsStr(expected) /\ IsStr(predicted)
        THEN normalize_string(expected.v) = normalize_string(predicted.v)
    ELSE expected.k = predicted.k /\ expected.v = predicted.v

calculate_field_match(expected, predicted) ==
    IF IsNone(expected) /\ IsNone(predicted) THEN TRUE
    ELSE IF IsNone(expected) \/ IsNone(predicted) THEN FALSE
    ELSE IF IsNumeric(expected) /\ IsNumeric(predicted) THEN NumericMatch(expected, predicted)
    ELSE IF LooksLikeDate(expected) /\ LooksLikeDate(predicted)
        THEN normalize_date(expected) = normalize_date(predicted)
    ELSE IF IsStr(expected) /\ IsStr(predicted)
        THEN normalize_string(expected.v) = normalize_string(predicted.v)
    ELSE expected.k = predicted.k /\ expected.v = predicted.v

-----------------------------------------------------------------------------
(* The statistics module on floats.  mean and stdev work on the exact values  *)
(* of their data and round once: mean is the float nearest to the exact mean, *)
(* stdev the float nearest to the square root of the exact sample variance.   *)
(* An exact value is sign * m * 2^e with m of any length.                     *)

Returned(v) == [raised |-> FALSE, value |-> v]
Raised(e) == [raised |-> TRUE, value |-> e]

\* an exception, as a value standing where a float was expected
StatisticsError == [error |-> "StatisticsError"]
AttributeError == [error |-> "AttributeError"]
ValueError == [error |-> "ValueError"]
IsError(x) == "error" \in DOMAIN x

F64IsFinite(a) == ~F64IsNaN(a) /\ ~F64IsInf(a)

\* the number of zero limbs at the low end of x # 0
RECURSIVE LowZeroLimbs(_)
LowZeroLimbs(x) == IF Head(x) = 0 THEN 1 + LowZeroLimbs(Tail(x)) ELSE 0

\* a finite float as an exact value, the low zero limbs of its significand moved
\* into the exponent
Exact(a) ==
    IF F64IsZero(a) THEN a
    ELSE [sign |-> a.sign,
          m |-> SubSeq(a.m, LowZeroLimbs(a.m) + 1, Len(a.m)),
          e |-> a.e + LimbBits * LowZeroLimbs(a.m)]

\* sa * A * 2^e + sb * B * 2^e
AddAligned(sa, A, sb, B, e) ==
    IF sa = sb THEN [sign |-> sa, m |-> BAdd(A, B), e |-> e]
    ELSE IF BCmp(A, B) = 0 THEN F64Zero
    ELSE IF BCmp(A, B) > 0 THEN [sign |-> sa, m |-> BSub(A, B), e |-> e]
    ELSE [sign |-> sb, m |-> BSub(B, A), e |-> e]

\* a + b and a * b of exact values
ExactAdd(a, b) ==
    IF a.m = <<>> THEN b
    ELSE IF b.m = <<>> THEN a
    ELSE AddAligned(a.sign, BShl(a.m, a.e - Min(a.e, b.e)),
                    b.sign, BShl(b.m, b.e - Min(a.e, b.e)), Min(a.e, b.e))

ExactMul(a, b) ==
    IF a.m = <<>> \/ b.m = <<>> THEN F64Zero
    ELSE [sign |-> a.sign * b.sign, m |-> BMul(a.m, b.m), e |-> a.e + b.e]

ExactFromInt(n) == [sign |-> IF n < 0 THEN -1 ELSE 1, m |-> BFromInt(Abs(n)), e |-> 0]

\* the exact sum of the finite floats xs[lo..hi], and of their squares, taken by
\* halves
RECURSIVE ExactSumOver(_, _, _)
ExactSumOver(xs, lo, hi) ==
    IF lo > hi THEN F64Zero
    ELSE IF lo = hi THEN Exact(xs[lo])
    ELSE ExactAdd(ExactSumOver(xs, lo, (lo + hi) \div 2),
                  ExactSumOver(xs, (lo + hi) \div 2 + 1, hi))

ExactSum(xs) == ExactSumOver(xs, 1, Len(xs))

RECURSIVE ExactSumSquaresOver(_, _, _)
ExactSumSquaresOver(xs, lo, hi) ==
    IF lo > hi THEN F64Zero
    ELSE IF lo = hi THEN ExactMul(Exact(xs[lo]), Exact(xs[lo]))
    ELSE ExactAdd(ExactSumSquaresOver(xs, lo, (lo + hi) \div 2),
                  ExactSumSquaresOver(xs, (lo + hi) \div 2 + 1, hi))

ExactSumSquares(xs) == ExactSumSquaresOver(xs, 1, Len(xs))

\* the sum in floats of the data that are inf or nan
RECURSIVE NonFiniteSum(_)
NonFiniteSum(xs) ==
    IF xs = <<>> THEN F64Zero
    ELSE IF F64IsFinite(Head(xs)) THEN NonFiniteSum(Tail(xs))
    ELSE F64Add(Head(xs), NonFiniteSum(Tail(xs)))

\* the bits by which a dividend x is shifted for its quotient by 0 < d < LimbBase
\* to have more than MantissaBits bits
QuotientShift(x, d) ==
    IF BitLen(x) > MantissaBits + GuardBits + SmallBitLen(d) THEN 0
    ELSE MantissaBits + GuardBits + SmallBitLen(d) - BitLen(x)

\* the float nearest to sign * (dm.q + dm.r / d) * 2^e, of a quotient and remainder
RoundQuotient(sign, dm, e) == F64Round(sign, dm.q, e, dm.r # 0)

\* the float nearest to v / d for an exact v and 0 < d < LimbBase: float() of the
\* Fraction total / n
NearestQuotient(v, d) ==
    IF v.m = <<>> THEN F64Zero
    ELSE RoundQuotient(v.sign, BDivModSmall(BShl(v.m, QuotientShift(v.m, d)), d),
                       v.e - QuotientShift(v.m, d))

\* x * 2^k for any k, with whether bits were dropped
ShiftSticky(x, k) ==
    IF k >= 0 THEN [v |-> BShl(x, k), dropped |-> FALSE]
    ELSE [v |-> BShr(x, -k), dropped |-> BLowBits(x, -k) # <<>>]

\* q of _float_sqrt_of_frac for the fraction m * 2^e / d: half the bits the root
\* is short of or beyond 2 * MantissaBits + 3 bits
RootScale(v, d) ==
    (BitLen(v.m) + v.e - SmallBitLen(d) - (2 * MantissaBits + GuardBits)) \div 2

\* _integer_sqrt_of_frac_rto and the final division: the integer square root of
\* the quotient, sticky if anything was dropped, times 2^q
RoundRootOf(sq, shift, sticky, q) ==
    F64Round(1, BShr(sq.root, shift \div 2), q, sq.rem # <<>> \/ sticky)

RoundRoot(sh, dm, q) ==
    RoundRootOf(BSqrt(dm.q), EvenShift(dm.q), dm.r # 0 \/ sh.dropped, q)

RootOfShifted(sh, d, q) == RoundRoot(sh, BDivModSmall(sh.v, d), q)

\* _float_sqrt_of_frac: the float nearest to sqrt(v / d) for an exact v >= 0 and
\* 0 < d < LimbBase
NearestRoot(v, d) ==
    IF v.m = <<>> THEN F64Zero
    ELSE RootOfShifted(ShiftSticky(v.m, v.e - 2 * RootScale(v, d)), d, RootScale(v, d))

\* statistics.mean: raises StatisticsError on an empty list
mean(xs) ==
    IF Len(xs) < 1 THEN StatisticsError
    ELSE IF \E i \in 1..Len(xs) : ~F64IsFinite(xs[i]) THEN NonFiniteSum(xs)
    ELSE NearestQuotient(ExactSum(xs), Len(xs))

\* count * sxx - sx * sx of _ss, which is count times the sum of the squared
\* deviations from the mean
CountedDeviations(count, sx, sxx) ==
    IF sx.m = <<>> THEN ExactMul(ExactFromInt(count), sxx)
    ELSE ExactAdd(ExactMul(ExactFromInt(count), sxx), F64Neg(ExactMul(sx, sx)))

SquaredDeviations(xs) == CountedDeviations(Len(xs), ExactSum(xs), ExactSumSquares(xs))

\* statistics.stdev (n - 1 denominator): raises StatisticsError below two
\* points, and AttributeError on inf or nan, whose sum has no numerator
stdev(xs) ==
    IF Len(xs) < 2 THEN StatisticsError
    ELSE IF \E i \in 1..Len(xs) : ~F64IsFinite(xs[i]) THEN AttributeError
    ELSE NearestRoot(SquaredDeviations(xs), Len(xs) * (Len(xs) - 1))

-----------------------------------------------------------------------------
(* DriftConfig *)

DriftConfig(w, m, at, dt, vt, fields) ==
    [window_size |-> w, min_samples |-> m, accuracy_threshold |-> at,
     drop_threshold |-> dt, volatility_threshold |-> vt, monitored_fields |-> fields]

\* DriftConfig(): the defaults of the class
DefaultFields == <<"invoice_number", "invoice_date", "supplier_name", "total_amount">>
DefaultConfig == DriftConfig(100, 20, F64FromQuot(4, 5), F64FromQuot(1, 10), F64FromQuot(3, 20), DefaultFields)

\* the drift_config fixture of tests/unit/test_drift.py
FixtureConfig ==
    DriftConfig(50, 5, F64FromQuot(4, 5), F64FromQuot(1, 10), F64FromQuot(3, 20),
                <<"invoice_number", "total_amount", "supplier_name">>)

\* DriftConfig(window_size=10) of test_window_size_limit
WindowLimitConfig == DriftConfig(10, 20, F64FromQuot(4, 5), F64FromQuot(1, 10), F64FromQuot(3, 20), DefaultFields)

\* the configurations replayed with the perfect / all-wrong documents of the tests
ReplayConfigs == {DefaultConfig, FixtureConfig, WindowLimitConfig}

\* every small window_size / min_samples pair, including window_size = 0,
\* min_samples = 0 and window_size < min_samples (DriftConfig validates neither)
SmallConfigs ==
    {DriftConfig(w, m, F64FromQuot(3, 4), F64FromQuot(1, 4), F64FromQuot(1, 4), <<"invoice_number", "total_amount">>) :
        w \in 0..MaxWindow, m \in 0..(MaxWindow + 1)}

\* DriftConfig(window_size=-1), which DriftConfig accepts
NegativeWindowConfig ==
    DriftConfig(-1, 0, F64FromQuot(3, 4), F64FromQuot(1, 4), F64FromQuot(1, 4), <<"invoice_number", "total_amount">>)

Configs == SmallConfigs \cup ReplayConfigs

\* a window that reaches the volatility check (10 samples) under min_samples = 0
ZeroGateConfig ==
    DriftConfig(10, 0, F64FromQuot(3, 4), F64FromQuot(1, 4), F64FromQuot(1, 4), <<"invoice_number", "total_amount">>)

\* the configurations fed long runs of documents
LongConfigs == ReplayConfigs \cup {ZeroGateConfig}

-----------------------------------------------------------------------------
(* Documents fed to add_sample: InvoiceData records and expected mappings *)

Chars12345 == <<"1", "2", "3", "4", "5">>
TestCorp == <<"T", "e", "s", "t", " ", "C", "o", "r", "p">>

\* the sample_invoice fixture; the fields left out of the constructor are None
sample_invoice ==
    [invoice_number |-> Str(Chars12345), invoice_date |-> None,
     supplier_name |-> Str(TestCorp), total_amount |-> Dec(100000),
     currency |-> Str(<<"U", "S", "D">>)]

\* bad_invoice of test_threshold_breach_alert
bad_invoice ==
    [invoice_number |-> Str(<<"w", "r", "o", "n", "g">>), invoice_date |-> None,
     supplier_name |-> Str(<<"W", "r", "o", "n", "g">>), total_amount |-> Dec(0),
     currency |-> Str(<<"U", "S", "D">>)]

Dict(f) == [k |-> "dict", v |-> f]

matching_expected ==
    Dict([invoice_number |-> Str(Chars12345), total_amount |-> Float(100000),
          supplier_name |-> Str(TestCorp)])

mismatching_expected ==
    Dict([invoice_number |-> Str(<<"9", "9", "9", "9", "9">>), total_amount |-> Float(200000),
          supplier_name |-> Str(<<"O", "t", "h", "e", "r", " ", "C", "o", "r", "p">>)])

\* right invoice number, wrong amount
half_expected ==
    Dict([invoice_number |-> Str(Chars12345), total_amount |-> Float(200000),
          supplier_name |-> Str(TestCorp)])

\* ground truth for the invoice number only (padded), null for the amount
partial_expected ==
    Dict([invoice_number |-> Str(<<" ">> \o Chars12345 \o <<" ">>), total_amount |-> None])

\* ground truth for a field the small configurations do not monitor
supplier_expected == Dict([supplier_name |-> Str(TestCorp)])

Doc(p, e) == [predicted |-> p, expected |-> e]

PerfectDoc == Doc(sample_invoice, matching_expected)
WrongDoc == Doc(bad_invoice, mismatching_expected)

\* sample_invoice with the amount not extracted
no_amount_invoice == [sample_invoice EXCEPT !.total_amount = None]

Documents ==
    {Doc(sample_invoice, None), Doc(sample_invoice, Dict(<<>>)), PerfectDoc, WrongDoc,
     Doc(sample_invoice, half_expected), Doc(sample_invoice, partial_expected),
     Doc(no_amount_invoice, matching_expected), Doc(bad_invoice, supplier_expected)}

-----------------------------------------------------------------------------
(* evaluate_extraction *)

\* the `fields` list of evaluate_extraction
CanonicalFields ==
    <<"invoice_number", "invoice_date", "due_date", "supplier_name", "supplier_address",
      "customer_name", "subtotal", "tax_amount", "total_amount", "currency">>

USD == Str(<<"U", "S", "D">>)

\* getattr(invoice, field): a record lists the fields given to InvoiceData(...);
\* the others take the default of the schema, None, or "USD" for currency
getattr(invoice, field) ==
    IF field \in DOMAIN invoice THEN invoice[field]
    ELSE IF field = "currency" THEN USD
    ELSE None

FieldSet(fields) == {fields[i] : i \in 1..Len(fields)}

NoCounts == [true_positives |-> 0, false_positives |-> 0, false_negatives |-> 0]

\* the mismatch branch counting a wrong value as a false positive only
Count_WrongValueOnce(c, exp_value, pred_value) ==
    IF ~IsNone(exp_value) /\ ~IsNone(pred_value)
    THEN IF calculate_field_match(exp_value, pred_value)
         THEN [c EXCEPT !.true_positives = @ + 1]
         ELSE [c EXCEPT !.false_positives = @ + 1]
    ELSE IF ~IsNone(exp_value) /\ IsNone(pred_value)
    THEN [c EXCEPT !.false_negatives = @ + 1]
    ELSE IF IsNone(exp_value) /\ ~IsNone(pred_value)
    THEN [c EXCEPT !.false_positives = @ + 1]
    ELSE c

\* a value predicted where none is expected left uncounted
Count_SpuriousIgnored(c, exp_value, pred_value) ==
    IF ~IsNone(exp_value) /\ ~IsNone(pred_value)
    THEN IF calculate_field_match(exp_value, pred_value)
         THEN [c EXCEPT !.true_positives = @ + 1]
         ELSE [c EXCEPT !.false_positives = @ + 1, !.false_negatives = @ + 1]
    ELSE IF ~IsNone(exp_value) /\ IsNone(pred_value)
    THEN [c EXCEPT !.false_negatives = @ + 1]
    ELSE c

\* the body of the inner loop: the counters after one (exp, pred) pair
Count(c, exp_value, pred_value) ==
    IF ~IsNone(exp_value) /\ ~IsNone(pred_value)
    THEN IF calculate_field_match(exp_value, pred_value)
         THEN [c EXCEPT !.true_positives = @ + 1]
         ELSE [c EXCEPT !.false_positives = @ + 1, !.false_negatives = @ + 1]
    ELSE IF ~IsNone(exp_value) /\ IsNone(pred_value)
    THEN [c EXCEPT !.false_negatives = @ + 1]
    ELSE IF IsNone(exp_value) /\ ~IsNone(pred_value)
    THEN [c EXCEPT !.false_positives = @ + 1]
    ELSE c

\* the inner loop over zip(expected, predicted) from pair i on
RECURSIVE CountPairs(_, _, _, _, _)
CountPairs(expected, predicted, field, i, c) ==
    IF i > Len(expected) THEN c
    ELSE CountPairs(expected, predicted, field, i + 1,
                    Count(c, getattr(expected[i], field), getattr(predicted[i], field)))

\* f1 by the closed form 2tp / (2tp + fp + fn)
F1_ClosedForm(precision, recall, c) ==
    IF c.true_positives > 0
    THEN F64FromQuot(2 * c.true_positives,
                     2 * c.true_positives + c.false_positives + c.false_negatives)
    ELSE F64Zero

\* 2 * (precision * recall) / (precision + recall) if (precision + recall) > 0 else 0.0
F1(precision, recall, c) ==
    IF F64Less(F64Zero, F64Add(precision, recall))
    THEN F64Div(F64Mul(F64FromInt(2), F64Mul(precision, recall)), F64Add(precision, recall))
    ELSE F64Zero

\* support=len(expected)
Support(c, total) == total

\* FieldMetrics of one field from its counters
FieldMetrics(c, total) ==
    LET precision ==
            IF c.true_positives + c.false_positives > 0
            THEN F64FromQuot(c.true_positives, c.true_positives + c.false_positives)
            ELSE F64Zero
        recall ==
            IF c.true_positives + c.false_negatives > 0
            THEN F64FromQuot(c.true_positives, c.true_positives + c.false_negatives)
            ELSE F64Zero
    IN [precision |-> precision, recall |-> recall, f1 |-> F1(precision, recall, c),
        support |-> Support(c, total)]

\* sum(m.f1 for m in field_metrics.values()), in the insertion order of the dict
RECURSIVE SumF1(_, _)
SumF1(field_metrics, i) ==
    IF i = 0 THEN F64Zero
    ELSE F64Add(SumF1(field_metrics, i - 1), field_metrics[CanonicalFields[i]].f1)

\* the average taken over the fields that have a non-zero f1 only
MacroF1_PopulatedOnly(field_metrics) ==
    LET n == Cardinality({f \in DOMAIN field_metrics : ~F64IsZero(field_metrics[f].f1)})
    IN IF n = 0 THEN F64Zero
       ELSE F64Div(SumF1(field_metrics, Len(CanonicalFields)), F64FromInt(n))

\* sum(...) / len(field_metrics)
MacroF1(field_metrics) ==
    F64Div(SumF1(field_metrics, Len(CanonicalFields)),
           F64FromInt(Cardinality(DOMAIN field_metrics)))

\* the length check comparing only one way
evaluate_extraction_TruncateLonger(expected, predicted) ==
    IF Len(expected) > Len(predicted) THEN Raised("ValueError")
    ELSE LET field_metrics ==
                 [f \in FieldSet(CanonicalFields) |->
                     FieldMetrics(CountPairs(expected, predicted, f, 1, NoCounts),
                                  Len(expected))]
         IN Returned([field_metrics |-> field_metrics,
                      macro_f1 |-> MacroF1(field_metrics),
                      total_samples |-> Len(expected)])

\* evaluate_extraction: the report, or the ValueError of the length check
evaluate_extraction(expected, predicted) ==
    IF Len(expected) # Len(predicted) THEN Raised("ValueError")
    ELSE LET field_metrics ==
                 [f \in FieldSet(CanonicalFields) |->
                     FieldMetrics(CountPairs(expected, predicted, f, 1, NoCounts),
                                  Len(expected))]
         IN Returned([field_metrics |-> field_metrics,
                      macro_f1 |-> MacroF1(field_metrics),
                      total_samples |-> Len(expected)])

-----------------------------------------------------------------------------
(* DriftDetector *)

Last(s) == s[Len(s)]

\* a bounded buffer that refuses the new element once full instead of evicting
DequeAppend_KeepOldest(q, x, maxlen) ==
    IF Len(q) >= maxlen THEN q ELSE Append(q, x)

\* collections.deque(maxlen=maxlen).append(x)
DequeAppend(q, x, maxlen) ==
    IF maxlen = 0 THEN q
    ELSE IF Len(q) >= maxlen THEN Tail(q) \o <<x>>
    ELSE Append(q, x)

\* DriftDetector.__init__: deque(maxlen=window_size) raises ValueError on a
\* negative window_size ("maxlen must be non-negative")
Construct(cfg) ==
    IF cfg.window_size < 0 THEN ValueError
    ELSE [config |-> cfg,
          samples |-> <<>>,
          baseline_accuracy |-> None,
          alerts |-> <<>>,
          field_accuracies |-> [f \in FieldSet(cfg.monitored_fields) |-> <<>>]]

\* getattr(invoice, field, None), Decimal coerced to float
InvoiceValue(invoice, field) ==
    IF getattr(invoice, field).k = "decimal"
    THEN [getattr(invoice, field) EXCEPT !.k = "float"]
    ELSE getattr(invoice, field)

\* DriftDetector._invoice_to_dict
invoice_to_dict(cfg, invoice) ==
    [f \in FieldSet(cfg.monitored_fields) |-> InvoiceValue(invoice, f)]

\* `if expected`: None and the empty dict are falsy
Truthy(expected) == ~IsNone(expected) /\ DOMAIN expected.v # {}

\* expected.get(field) if expected else None
ExpectedValue(expected, field) ==
    IF Truthy(expected) /\ field \in DOMAIN expected.v THEN expected.v[field] ELSE None

\* the loop pushing 0.0 onto the buffer of a field that has no ground truth
RECURSIVE MatchFields_PushMissing(_, _, _, _, _)
MatchFields_PushMissing(cfg, predicted_dict, expected, i, acc) ==
    IF i > Len(cfg.monitored_fields) THEN acc
    ELSE
        LET field == cfg.monitored_fields[i]
            pred_value == predicted_dict[field]
            exp_value == ExpectedValue(expected, field)
        IN IF Truthy(expected) /\ ~IsNone(exp_value)
           THEN LET match == calculate_field_match(exp_value, pred_value)
                IN MatchFields_PushMissing(cfg, predicted_dict, expected, i + 1,
                     [field_matches |-> (field :> match) @@ acc.field_matches,
                      overall_matches |-> acc.overall_matches + (IF match THEN 1 ELSE 0),
                      total_fields |-> acc.total_fields + 1,
                      field_accuracies |->
                          [acc.field_accuracies EXCEPT ![field] =
                              DequeAppend(@, IF match THEN F64One ELSE F64Zero, cfg.window_size)]])
           ELSE MatchFields_PushMissing(cfg, predicted_dict, expected, i + 1,
                     [acc EXCEPT !.field_accuracies[field] =
                                     DequeAppend(@, F64Zero, cfg.window_size)])

\* the field buffers created one entry longer than the window
CountField_LongerBuffer(acc, field, match, window_size) ==
    [field_matches |-> (field :> match) @@ acc.field_matches,
     overall_matches |-> acc.overall_matches + (IF match THEN 1 ELSE 0),
     total_fields |-> acc.total_fields + 1,
     field_accuracies |->
         [acc.field_accuracies EXCEPT ![field] =
             DequeAppend(@, IF match THEN F64One ELSE F64Zero, window_size + 1)]]

\* one monitored field with ground truth: its outcome recorded in the sample,
\* counted into the totals and pushed onto the buffer of the field
CountField(acc, field, match, window_size) ==
    [field_matches |-> (field :> match) @@ acc.field_matches,
     overall_matches |-> acc.overall_matches + (IF match THEN 1 ELSE 0),
     total_fields |-> acc.total_fields + 1,
     field_accuracies |->
         [acc.field_accuracies EXCEPT ![field] =
             DequeAppend(@, IF match THEN F64One ELSE F64Zero, window_size)]]

\* the loop of add_sample over monitored_fields[i..]: acc carries field_matches,
\* overall_matches, total_fields and the per-field deques
RECURSIVE MatchFields(_, _, _, _, _)
MatchFields(cfg, predicted_dict, expected, i, acc) ==
    IF i > Len(cfg.monitored_fields) THEN acc
    ELSE
        LET field == cfg.monitored_fields[i]
            pred_value == predicted_dict[field]
            exp_value == ExpectedValue(expected, field)
        IN IF Truthy(expected) /\ ~IsNone(exp_value)
           THEN MatchFields(cfg, predicted_dict, expected, i + 1,
                    CountField(acc, field, calculate_field_match(exp_value, pred_value),
                               cfg.window_size))
           ELSE MatchFields(cfg, predicted_dict, expected, i + 1, acc)

Accuracies(smpls) == [i \in 1..Len(smpls) |-> smpls[i].overall_accuracy]

DriftAlert(type, field, value, threshold) ==
    [alert_type |-> type, field |-> field, current_value |-> value, threshold |-> threshold]

\* the per-field loop of _check_drift over monitored_fields[i..]; raises
\* StatisticsError when the mean of an empty buffer is taken
RECURSIVE CheckFields(_, _, _)

\* the field_threshold_breach test of monitored_fields[i] on the mean of its buffer
CheckField(D, i, triggered, field_accuracy) ==
    IF IsError(field_accuracy) THEN Raised(field_accuracy.error)
    ELSE IF F64Less(field_accuracy, D.config.accuracy_threshold)
    THEN CheckFields(D, i + 1,
             Append(triggered,
                    DriftAlert("field_threshold_breach", Str(D.config.monitored_fields[i]),
                               field_accuracy, D.config.accuracy_threshold)))
    ELSE CheckFields(D, i + 1, triggered)

CheckFields(D, i, triggered) ==
    IF i > Len(D.config.monitored_fields) THEN Returned(triggered)
    ELSE IF Len(D.field_accuracies[D.config.monitored_fields[i]]) >= D.config.min_samples
    THEN CheckField(D, i, triggered, mean(D.field_accuracies[D.config.monitored_fields[i]]))
    ELSE CheckFields(D, i + 1, triggered)

\* the breach test written <= instead of <
ThresholdCheck_NonStrict(D, rolling_accuracy) ==
    IF ~F64Less(D.config.accuracy_threshold, rolling_accuracy)
    THEN <<DriftAlert("threshold_breach", None, rolling_accuracy, D.config.accuracy_threshold)>>
    ELSE <<>>

ThresholdCheck(D, rolling_accuracy) ==
    IF F64Less(rolling_accuracy, D.config.accuracy_threshold)
    THEN <<DriftAlert("threshold_breach", None, rolling_accuracy, D.config.accuracy_threshold)>>
    ELSE <<>>

\* the drop test written >= instead of >
DropCheck_NonStrict(D, rolling_accuracy) ==
    IF ~IsNone(D.baseline_accuracy)
       /\ ~F64Less(F64Sub(D.baseline_accuracy, rolling_accuracy), D.config.drop_threshold)
    THEN <<DriftAlert("accuracy_drop", None, rolling_accuracy,
                      F64Sub(D.baseline_accuracy, D.config.drop_threshold))>>
    ELSE <<>>

DropCheck(D, rolling_accuracy) ==
    IF ~IsNone(D.baseline_accuracy)
       /\ F64Less(D.config.drop_threshold, F64Sub(D.baseline_accuracy, rolling_accuracy))
    THEN <<DriftAlert("accuracy_drop", None, rolling_accuracy,
                      F64Sub(D.baseline_accuracy, D.config.drop_threshold))>>
    ELSE <<>>

\* len(recent_accuracies) >= 10
VolatilityMinSamples == 10

\* std_dev > self.config.volatility_threshold
VolatilityAlert(D, std_dev) ==
    IF F64Less(D.config.volatility_threshold, std_dev)
    THEN <<DriftAlert("volatility", None, std_dev, D.config.volatility_threshold)>>
    ELSE <<>>

VolatilityCheck(D, recent_accuracies) ==
    IF Len(recent_accuracies) >= VolatilityMinSamples
    THEN VolatilityAlert(D, stdev(recent_accuracies))
    ELSE <<>>

\* the cascade with `self.alerts = triggered_alerts` in place of extend
run_checks_ReplaceLog(D) ==
    LET recent_accuracies == Accuracies(D.samples)
        rolling_accuracy == mean(recent_accuracies)
    IN IF IsError(rolling_accuracy) THEN [det |-> D, result |-> Raised(rolling_accuracy.error)]
       ELSE
         LET overall == ThresholdCheck(D, rolling_accuracy)
                           \o DropCheck(D, rolling_accuracy)
                           \o VolatilityCheck(D, recent_accuracies)
             checked == CheckFields(D, 1, overall)
         IN IF checked.raised THEN [det |-> D, result |-> checked]
            ELSE [det |-> [D EXCEPT !.alerts = checked.value],
                  result |-> checked]

\* the check cascade of _check_drift, run once the min_samples gate has passed;
\* the alerts are appended to the log only when every check has completed
run_checks(D) ==
    LET recent_accuracies == Accuracies(D.samples)
        rolling_accuracy == mean(recent_accuracies)
    IN IF IsError(rolling_accuracy) THEN [det |-> D, result |-> Raised(rolling_accuracy.error)]
       ELSE
         LET overall == ThresholdCheck(D, rolling_accuracy)
                           \o DropCheck(D, rolling_accuracy)
                           \o VolatilityCheck(D, recent_accuracies)
             checked == CheckFields(D, 1, overall)
         IN IF checked.raised THEN [det |-> D, result |-> checked]
            ELSE [det |-> [D EXCEPT !.alerts = @ \o checked.value],
                  result |-> checked]

\* _check_drift without the min_samples gate
check_drift_NoGate(D) == run_checks(D)

\* _check_drift with the gate written <= instead of <
check_drift_GateInclusive(D) ==
    IF Len(D.samples) <= D.config.min_samples
    THEN [det |-> D, result |-> Returned(<<>>)]
    ELSE run_checks(D)

\* DriftDetector._check_drift: the detector after the call and what it returns
check_drift(D) ==
    IF Len(D.samples) < D.config.min_samples
    THEN [det |-> D, result |-> Returned(<<>>)]
    ELSE run_checks(D)

\* add_sample dividing the matches by the number of monitored fields
add_sample_OverAllFields(D, document_id, predicted, expected) ==
    LET predicted_dict == invoice_to_dict(D.config, predicted)
        m == MatchFields(D.config, predicted_dict, expected, 1,
                 [field_matches |-> <<>>, overall_matches |-> 0, total_fields |-> 0,
                  field_accuracies |-> D.field_accuracies])
        overall_accuracy == F64FromQuot(m.overall_matches, Len(D.config.monitored_fields))
        sample == [document_id |-> document_id, field_matches |-> m.field_matches,
                   overall_accuracy |-> overall_accuracy]
    IN check_drift([D EXCEPT !.field_accuracies = m.field_accuracies,
                             !.samples = DequeAppend(@, sample, D.config.window_size)])

\* add_sample scoring every field the expected mapping names, monitored or not
add_sample_ScoreAllExpected(D, document_id, predicted, expected) ==
    LET m == MatchFields(D.config, invoice_to_dict(D.config, predicted), expected, 1,
                 [field_matches |-> <<>>, overall_matches |-> 0, total_fields |-> 0,
                  field_accuracies |-> D.field_accuracies])
        named == IF Truthy(expected)
                 THEN {f \in DOMAIN expected.v : ~IsNone(expected.v[f])} ELSE {}
        hits == {f \in named : calculate_field_match(expected.v[f], InvoiceValue(predicted, f))}
        overall_accuracy ==
            IF named # {} THEN F64FromQuot(Cardinality(hits), Cardinality(named)) ELSE F64Zero
        sample == [document_id |-> document_id, field_matches |-> m.field_matches,
                   overall_accuracy |-> overall_accuracy]
    IN check_drift([D EXCEPT !.field_accuracies = m.field_accuracies,
                             !.samples = DequeAppend(@, sample, D.config.window_size)])

\* a sample without ground truth scored as a full match
StoreSample_UnscoredPerfect(D, document_id, m) ==
    LET overall_accuracy ==
            IF m.total_fields > 0 THEN F64FromQuot(m.overall_matches, m.total_fields) ELSE F64One
        sample == [document_id |-> document_id, field_matches |-> m.field_matches,
                   overall_accuracy |-> overall_accuracy]
    IN [D EXCEPT !.field_accuracies = m.field_accuracies,
                 !.samples = DequeAppend(@, sample, D.config.window_size)]

\* the sample built from the outcomes m of the field loop, appended to the
\* window of a detector that takes over the buffers of the loop
StoreSample(D, document_id, m) ==
    LET overall_accuracy ==
            IF m.total_fields > 0 THEN F64FromQuot(m.overall_matches, m.total_fields) ELSE F64Zero
        sample == [document_id |-> document_id, field_matches |-> m.field_matches,
                   overall_accuracy |-> overall_accuracy]
    IN [D EXCEPT !.field_accuracies = m.field_accuracies,
                 !.samples = DequeAppend(@, sample, D.config.window_size)]

\* DriftDetector.add_sample: the field loop, the sample stored, then _check_drift
add_sample(D, document_id, predicted, expected) ==
    check_drift(StoreSample(D, document_id,
        MatchFields(D.config, invoice_to_dict(D.config, predicted), expected, 1,
            [field_matches |-> <<>>, overall_matches |-> 0, total_fields |-> 0,
             field_accuracies |-> D.field_accuracies])))

\* set_baseline with a range check that clamps to 0..1
set_baseline_Clamped(D, accuracy) ==
    [det |-> [D EXCEPT !.baseline_accuracy =
                 IF F64Less(F64One, accuracy) THEN F64One
                 ELSE IF F64Less(accuracy, F64Zero) THEN F64Zero ELSE accuracy],
     result |-> Returned(None)]

\* DriftDetector.set_baseline
set_baseline(D, accuracy) ==
    [det |-> [D EXCEPT !.baseline_accuracy = accuracy], result |-> Returned(None)]

\* min() and max() of a non-empty list of floats
MinOf(xs) == CHOOSE x \in {xs[i] : i \in 1..Len(xs)} :
                 \A j \in 1..Len(xs) : ~F64Less(xs[j], x)
MaxOf(xs) == CHOOSE x \in {xs[i] : i \in 1..Len(xs)} :
                 \A j \in 1..Len(xs) : ~F64Less(x, xs[j])

\* self.alerts[-5:] rendered for display
RecentAlertsShown == 5
RecentAlerts(D) ==
    LET k == Min(Len(D.alerts), RecentAlertsShown)
        tail == SubSeq(D.alerts, Len(D.alerts) - k + 1, Len(D.alerts))
    IN [i \in 1..k |-> [type |-> tail[i].alert_type]]

\* the dictionary returned for a non-empty window, or the exception of its mean
\* or standard deviation
StatsEntries(D, recent_accuracies, rolling_accuracy, accuracy_std_dev) ==
    IF IsError(rolling_accuracy) THEN Raised(rolling_accuracy.error)
    ELSE IF IsError(accuracy_std_dev) THEN Raised(accuracy_std_dev.error)
    ELSE Returned(
           [sample_count |-> Len(D.samples),
            rolling_accuracy |-> rolling_accuracy,
            accuracy_std_dev |-> accuracy_std_dev,
            baseline_accuracy |-> D.baseline_accuracy,
            min_accuracy |-> MinOf(recent_accuracies),
            max_accuracy |-> MaxOf(recent_accuracies),
            alerts_count |-> Len(D.alerts),
            recent_alerts |-> RecentAlerts(D)])

\* the non-empty branch with stdev taken of any window, a single sample included
window_stats_StdevAlways(D) ==
    StatsEntries(D, Accuracies(D.samples), mean(Accuracies(D.samples)),
                 stdev(Accuracies(D.samples)))

\* the non-empty branch of get_stats
window_stats(D) ==
    StatsEntries(D, Accuracies(D.samples), mean(Accuracies(D.samples)),
                 IF Len(D.samples) > 1 THEN stdev(Accuracies(D.samples)) ELSE F64Zero)

\* the early return of get_stats on an empty window
empty_stats(D) ==
    Returned([sample_count |-> 0,
              rolling_accuracy |-> None,
              baseline_accuracy |-> D.baseline_accuracy,
              alerts_count |-> Len(D.alerts)])

\* get_stats without the early return on an empty window
get_stats_NoEmptyGuard(D) == [det |-> D, result |-> window_stats(D)]

\* DriftDetector.get_stats
get_stats(D) ==
    [det |-> D,
     result |-> IF Len(D.samples) = 0 THEN empty_stats(D) ELSE window_stats(D)]

\* clear without the loop over the per-field deques
clear_KeepFieldBuffers(D) ==
    [det |-> [D EXCEPT !.samples = <<>>, !.alerts = <<>>], result |-> Returned(None)]

\* DriftDetector.clear
clear(D) ==
    [det |-> [D EXCEPT !.samples = <<>>,
                       !.alerts = <<>>,
                       !.field_accuracies = [f \in DOMAIN @ |-> <<>>]],
     result |-> Returned(None)]

-----------------------------------------------------------------------------
(* The detector as a state machine: one action per public method *)

Self ==
    [config |-> config, samples |-> samples, baseline_accuracy |-> baseline_accuracy,
     alerts |-> alerts, field_accuracies |-> field_accuracies]

Absent == [absent |-> TRUE]

\* every call is made by one caller and has returned before the next is made
NoCalls == <<>>
HasFresh == "absent" \notin DOMAIN fresh

\* the shadow detector takes the same call
Shadow(r) == IF HasFresh THEN r ELSE Absent

Becomes(r, op, arg) ==
    /\ config' = r.det.config
    /\ samples' = r.det.samples
    /\ baseline_accuracy' = r.det.baseline_accuracy
    /\ alerts' = r.det.alerts
    /\ field_accuracies' = r.det.field_accuracies
    /\ result' = r.result
    /\ last_op' = op
    /\ last_arg' = arg
    /\ calls' = calls

\* what the callers of the tests feed: any recorded document to a small
\* detector; to the large configurations a run of perfect documents followed
\* by a run of all-wrong ones
ReplayLen == 20

\* a small detector is fed until its window has filled and evicted once; the
\* replays run past several evictions
SampleLimit(cfg) ==
    IF cfg \in LongConfigs THEN ReplayLen ELSE Min(MaxSamples, cfg.window_size + 1)

\* the long runs: documents that all match, then documents that all miss; under
\* ZeroGateConfig they carry ground truth for the invoice number only
Inputs ==
    IF config \in ReplayConfigs
    THEN {WrongDoc} \cup
         (IF samples = <<>> \/ Last(samples).overall_accuracy = F64One
          THEN {PerfectDoc} ELSE {})
    ELSE IF config = ZeroGateConfig
    THEN {Doc(bad_invoice, partial_expected)} \cup
         (IF samples = <<>> \/ Last(samples).overall_accuracy = F64One
          THEN {Doc(sample_invoice, partial_expected)} ELSE {})
    ELSE Documents

\* set_baseline validates nothing: 3/2 is outside 0..1.  The replayed tests set
\* the baseline before the first document
BaselineValues ==
    IF config \in LongConfigs
    THEN (IF ingested = 0 THEN {F64FromQuot(9, 10), F64FromQuot(3, 2)} ELSE {})
    ELSE {F64One}

\* the configurations of S a detector exists for: the constructor returned
Constructed(S) == {cfg \in S : ~IsError(Construct(cfg))}

Init ==
    /\ config \in Constructed(Configs \cup {NegativeWindowConfig})
    /\ samples = Construct(config).samples
    /\ baseline_accuracy = Construct(config).baseline_accuracy
    /\ alerts = Construct(config).alerts
    /\ field_accuracies = Construct(config).field_accuracies
    /\ last_op = "init"
    /\ last_arg = None
    /\ result = Returned(None)
    /\ ingested = 0
    /\ fresh = Absent
    /\ calls = NoCalls

AddSampleCall ==
    /\ ingested < SampleLimit(config)
    /\ \E doc \in Inputs :
          /\ Becomes(add_sample(Self, ingested + 1, doc.predicted, doc.expected),
                     "add_sample", doc)
          /\ fresh' = Shadow(add_sample(fresh.det, ingested + 1, doc.predicted, doc.expected))
    /\ ingested' = ingested + 1

SetBaselineCall ==
    /\ \E accuracy \in BaselineValues :
          /\ Becomes(set_baseline(Self, accuracy), "set_baseline", accuracy)
          /\ fresh' = Shadow(set_baseline(fresh.det, accuracy))
    /\ UNCHANGED ingested

GetStatsCall ==
    /\ Becomes(get_stats(Self), "get_stats", None)
    /\ fresh' = Shadow(get_stats(fresh.det))
    /\ UNCHANGED ingested

\* a new detector with the same config, given the same baseline
FreshLike(D) ==
    IF IsNone(D.baseline_accuracy)
    THEN [det |-> Construct(D.config), result |-> Returned(None)]
    ELSE set_baseline(Construct(D.config), D.baseline_accuracy)

ClearCall ==
    /\ Becomes(clear(Self), "clear", None)
    /\ fresh' = FreshLike(Self)
    /\ ingested' = 0

Next == AddSampleCall \/ SetBaselineCall \/ GetStatsCall \/ ClearCall

Spec == Init /\ [][Next]_vars

\* the detectors fed long runs, and four small ones of a fixed size
MixedConfigs ==
    LongConfigs \cup {c \in SmallConfigs : c.window_size \in {1, 2} /\ c.min_samples \in {0, 1}}

MixedInit ==
    /\ config \in MixedConfigs
    /\ samples = Construct(config).samples
    /\ baseline_accuracy = Construct(config).baseline_accuracy
    /\ alerts = Construct(config).alerts
    /\ field_accuracies = Construct(config).field_accuracies
    /\ last_op = "init"
    /\ last_arg = None
    /\ result = Returned(None)
    /\ ingested = 0
    /\ fresh = Absent
    /\ calls = NoCalls

MixedSpec == MixedInit /\ [][Next]_vars

-----------------------------------------------------------------------------
(* Two threads calling add_sample on one detector.  A call is cut at every   *)
(* statement that reads or writes an attribute of the detector: an           *)
(* iteration of the field loop (the append to the field buffer), the append  *)
(* to the window, the min_samples gate, the iterator taken on the window,    *)
(* the reading of the window through it with the three overall checks, an    *)
(* iteration of the per-field check, the extension of the alert log.  The    *)
(* window is read by a comprehension, which runs in the interpreter and      *)
(* fails when the deque has been appended to since its iterator was taken;   *)
(* a field buffer is read by list(), in one piece.  The detector has no      *)
(* lock; `locked` says whether the callers wrap each call in a critical      *)
(* section of their own.                                                     *)

Threads == {1, 2}

\* the locals of a call that has not started
IdleCall ==
    [pc |-> "idle", doc |-> None, document_id |-> 0, i |-> 0,
     field_matches |-> <<>>, overall_matches |-> 0, total_fields |-> 0,
     triggered |-> <<>>, iterator |-> 0, result |-> Returned(None),
     entry |-> None, torn |-> FALSE]

\* the locals of add_sample(document_id, provider, doc.predicted, doc.expected)
\* on entry; `iterator` is the state of the window its iterator was taken in,
\* `entry` remembers the detector the call found and `torn` whether a
\* per-field check of the call has read a buffer longer than the window
NewCall(D, doc, document_id) ==
    [pc |-> "loop", doc |-> doc, document_id |-> document_id, i |-> 1,
     field_matches |-> <<>>, overall_matches |-> 0, total_fields |-> 0,
     triggered |-> <<>>, iterator |-> 0, result |-> Returned(None),
     entry |-> [config |-> D.config, samples |-> D.samples,
                baseline_accuracy |-> D.baseline_accuracy, alerts |-> D.alerts,
                field_accuracies |-> D.field_accuracies],
     torn |-> FALSE]

\* the call leaves add_sample: by return, or by an exception
Leave(L, r) == [L EXCEPT !.pc = "done", !.result = r]

\* the locals after the outcomes m of one counted field
Counted(L, m) ==
    [L EXCEPT !.field_matches = m.field_matches,
              !.overall_matches = m.overall_matches,
              !.total_fields = m.total_fields]

\* the loop variable moves on; past the last field the loop is left for pc `after`
NextField(D, L, after) ==
    [L EXCEPT !.i = @ + 1,
              !.pc = IF L.i + 1 > Len(D.config.monitored_fields) THEN after ELSE @]

\* the totals of the call so far, over the buffers the detector holds now
Totals(D, L) ==
    [field_matches |-> L.field_matches, overall_matches |-> L.overall_matches,
     total_fields |-> L.total_fields, field_accuracies |-> D.field_accuracies]

\* the detector takes over the buffers of m, the call its totals
PushOutcome(D, L, m) ==
    [det |-> [D EXCEPT !.field_accuracies = m.field_accuracies],
     call |-> NextField(D, Counted(L, m), "store")]

\* one iteration of the field loop of add_sample
LoopStep(D, L) ==
    IF Truthy(L.doc.expected)
       /\ ~IsNone(ExpectedValue(L.doc.expected, D.config.monitored_fields[L.i]))
    THEN PushOutcome(D, L,
             CountField(Totals(D, L), D.config.monitored_fields[L.i],
                 calculate_field_match(
                     ExpectedValue(L.doc.expected, D.config.monitored_fields[L.i]),
                     InvoiceValue(L.doc.predicted, D.config.monitored_fields[L.i])),
                 D.config.window_size))
    ELSE [det |-> D, call |-> NextField(D, L, "store")]

\* the drift check entered with the sample not appended to the window
StoreStep_CheckBeforeAppend(D, L) ==
    [det |-> D, call |-> [L EXCEPT !.pc = "gate"]]

\* overall_accuracy, the DriftSample, self.samples.append(sample); the append
\* moves the state of the deque on, whether or not it evicts
StoreStep(D, L) ==
    [det |-> [StoreSample(D, L.document_id, Totals(D, L)) EXCEPT !.state = @ + 1],
     call |-> [L EXCEPT !.pc = "gate"]]

\* _check_drift: `if len(self.samples) < self.config.min_samples: return []`
GateStep(D, L) ==
    [det |-> D,
     call |-> IF Len(D.samples) < D.config.min_samples
              THEN Leave(L, Returned(<<>>))
              ELSE [L EXCEPT !.pc = "iter"]]

\* iter(self.samples) of the comprehension: the iterator keeps the state of
\* the deque it was taken in
IterStep(D, L) ==
    [det |-> D, call |-> [L EXCEPT !.pc = "window", !.iterator = D.state]]

\* the three overall checks on the accuracies read from the window
OverallChecks(D, L, recent_accuracies, rolling_accuracy) ==
    IF IsError(rolling_accuracy) THEN Leave(L, Raised("StatisticsError"))
    ELSE [L EXCEPT !.pc = "fields", !.i = 1,
                   !.triggered = ThresholdCheck(D, rolling_accuracy)
                                    \o DropCheck(D, rolling_accuracy)
                                    \o VolatilityCheck(D, recent_accuracies)]

\* recent_accuracies = [s.overall_accuracy for s in self.samples] and the checks
\* on it; next() on the iterator raises RuntimeError ("deque mutated during
\* iteration") when the state of the deque is no longer the one it keeps
WindowStep(D, L) ==
    [det |-> D,
     call |-> IF D.state # L.iterator THEN Leave(L, Raised("RuntimeError"))
              ELSE OverallChecks(D, L, Accuracies(D.samples), mean(Accuracies(D.samples)))]

\* the check of one buffer as read: raise, alert or nothing
FieldChecked(D, L, field, field_samples) ==
    IF Len(field_samples) < D.config.min_samples THEN NextField(D, L, "extend")
    ELSE IF IsError(mean(field_samples)) THEN Leave(L, Raised("StatisticsError"))
    ELSE IF F64Less(mean(field_samples), D.config.accuracy_threshold)
    THEN NextField(D, [L EXCEPT !.triggered =
                          Append(@, DriftAlert("field_threshold_breach", Str(field),
                                               mean(field_samples),
                                               D.config.accuracy_threshold))],
                   "extend")
    ELSE NextField(D, L, "extend")

\* one iteration of the per-field check: field_samples = list(self._field_accuracies[field])
FieldStep(D, L) ==
    [det |-> D,
     call |-> FieldChecked(D,
                  [L EXCEPT !.torn = @ \/ Len(D.field_accuracies[D.config.monitored_fields[L.i]])
                                            > Len(D.samples)],
                  D.config.monitored_fields[L.i],
                  D.field_accuracies[D.config.monitored_fields[L.i]])]

\* self.alerts.extend(triggered_alerts); return triggered_alerts
ExtendStep(D, L) ==
    [det |-> [D EXCEPT !.alerts = @ \o L.triggered],
     call |-> Leave(L, Returned(L.triggered))]

\* the next statement of a call, by its position
Statement(D, L) ==
    CASE L.pc = "loop" -> LoopStep(D, L)
      [] L.pc = "store" -> StoreStep(D, L)
      [] L.pc = "gate" -> GateStep(D, L)
      [] L.pc = "iter" -> IterStep(D, L)
      [] L.pc = "window" -> WindowStep(D, L)
      [] L.pc = "fields" -> FieldStep(D, L)
      [] L.pc = "extend" -> ExtendStep(D, L)

\* the detectors the two threads share and the documents they submit
RaceConfigs == {c \in SmallConfigs : c.window_size >= 1}
RaceDocs == {PerfectDoc, WrongDoc, Doc(sample_invoice, partial_expected)}

RaceInit ==
    /\ config \in RaceConfigs
    /\ samples = Construct(config).samples
    /\ baseline_accuracy = Construct(config).baseline_accuracy
    /\ alerts = Construct(config).alerts
    /\ field_accuracies = Construct(config).field_accuracies
    /\ last_op = "init"
    /\ last_arg = None
    /\ result = Returned(None)
    /\ ingested = 0
    /\ fresh = Absent
    /\ \E locked \in BOOLEAN :
          calls = [locked |-> locked, holder |-> 0, state |-> 0,
                   thread |-> [t \in Threads |-> IdleCall]]

\* the detector the threads share, with the state its window keeps for its
\* iterators: the count of its mutations
Shared ==
    [config |-> config, samples |-> samples, baseline_accuracy |-> baseline_accuracy,
     alerts |-> alerts, field_accuracies |-> field_accuracies, state |-> calls.state]

\* thread t calls add_sample; under the callers' lock it first acquires it
Enter(t) ==
    /\ calls.thread[t].pc = "idle"
    /\ calls.locked => calls.holder = 0
    /\ \E doc \in RaceDocs :
          calls' = [calls EXCEPT !.thread[t] = NewCall(Shared, doc, t),
                                 !.holder = IF calls.locked THEN t ELSE 0]
    /\ UNCHANGED <<config, samples, baseline_accuracy, alerts, field_accuracies,
                   last_op, last_arg, result, ingested, fresh>>

\* the detector and the locals of thread t become those of r; the lock is
\* released when the call leaves
Resume(t, r) ==
    /\ config' = r.det.config
    /\ samples' = r.det.samples
    /\ baseline_accuracy' = r.det.baseline_accuracy
    /\ alerts' = r.det.alerts
    /\ field_accuracies' = r.det.field_accuracies
    /\ calls' = [calls EXCEPT !.thread[t] = r.call,
                              !.state = r.det.state,
                              !.holder = IF r.call.pc = "done" THEN 0 ELSE @]
    /\ UNCHANGED <<last_op, last_arg, result, ingested, fresh>>

\* thread t executes its statement at position pc
Run(t, pc) ==
    /\ calls.thread[t].pc = pc
    /\ Resume(t, Statement(Shared, calls.thread[t]))

RaceNext ==
    \E t \in Threads :
        \/ Enter(t)
        \/ Run(t, "loop")
        \/ Run(t, "store")
        \/ Run(t, "gate")
        \/ Run(t, "iter")
        \/ Run(t, "window")
        \/ Run(t, "fields")
        \/ Run(t, "extend")

RaceSpec == RaceInit /\ [][RaceNext]_vars

-----------------------------------------------------------------------------
(* The scorer and the matcher: pure functions, called once on every input   *)
(* of a bounded set.  A call neither reads nor leaves any state, so one     *)
(* call from the initial state is every call; the detector variables hold   *)
(* a detector that is never touched.                                        *)

\* longest batch of the exhaustively enumerated batches
MaxBatch == 2
\* longest batch of the batches built from runs of equal pairs
MaxRun == 4

\* expected and predicted of test_evaluate_extraction_partial (currency defaults to USD)
partial_gold ==
    [invoice_number |-> Str(<<"I", "N", "V", "-", "0", "0", "1">>),
     invoice_date |-> Date(2024, 1, 15), total_amount |-> Dec(1000000)]
partial_pred ==
    [invoice_number |-> Str(<<"I", "N", "V", "-", "0", "0", "1">>),
     invoice_date |-> Date(2024, 1, 16), total_amount |-> None]

\* InvoiceData(currency=None): every field null
blank_invoice == [currency |-> None]

\* sample_invoice with a date: five fields populated, five null
dated_invoice == [sample_invoice EXCEPT !.invoice_date = Date(2024, 1, 15)]

\* all ten fields populated
full_invoice ==
    [invoice_number |-> Str(Chars12345), invoice_date |-> Date(2024, 1, 15),
     due_date |-> Date(2024, 1, 16), supplier_name |-> Str(TestCorp),
     supplier_address |-> Str(<<"1", " ", "M", "a", "i", "n", " ", "S", "t", "\n", "X">>),
     customer_name |-> Str(<<"A", "c", "m", "e">>), subtotal |-> Dec(90000),
     tax_amount |-> Dec(10000), total_amount |-> Dec(100000), currency |-> USD]

\* dated_invoice with total_amount=Decimal(2**1024), a finite Decimal beyond the
\* range of float
overflow_invoice == [dated_invoice EXCEPT !.total_amount = BigDec(1000, 1024)]

EvalRecords == {partial_gold, partial_pred, blank_invoice}

SeqsUpTo(S, n) == UNION {[1..k -> S] : k \in 0..n}

Repeat(x, n) == [i \in 1..n |-> x]

\* every pair of short batches, equal in length or not
ShortBatches ==
    {[expected |-> e, predicted |-> p] :
        e \in SeqsUpTo(EvalRecords, MaxBatch), p \in SeqsUpTo(EvalRecords, MaxBatch)}

\* a matched, b wrong, c missed and d spurious records, in runs
RunBatches ==
    {[expected |-> Repeat(dated_invoice, a + b + c) \o Repeat(blank_invoice, d),
      predicted |-> Repeat(dated_invoice, a) \o Repeat(bad_invoice, b)
                        \o Repeat(blank_invoice, c) \o Repeat(dated_invoice, d)] :
        <<a, b, c, d>> \in {t \in (0..MaxRun) \X (0..MaxRun) \X (0..MaxRun) \X (0..MaxRun) :
                              t[1] + t[2] + t[3] + t[4] <= MaxRun}}

\* a batch scored against itself
PerfectBatches ==
    {[expected |-> b, predicted |-> b] :
        b \in SeqsUpTo({full_invoice, dated_invoice, blank_invoice, overflow_invoice}, MaxBatch)}

\* the strings of the tests and of the specification's examples, and strings that
\* look like dates: ten characters with "-" at index 4
AcmePadded == <<" ", " ", "A", "c", "m", "e", " ", "C", "o", "r", "p", " ", " ">>
AcmeUpper == <<"A", "C", "M", "E", " ", "C", "O", "R", "P">>
Iso15 == <<"2", "0", "2", "4", "-", "0", "1", "-", "1", "5">>
CafeUpper == <<"C", "A", "F", "É">>
\* "ΟΔΟΣ", whose last letter is a capital sigma, and "Kelvin" with the Kelvin
\* sign U+212A for its first letter
OdosUpper == <<"U+039F", "U+0394", "U+039F", "U+03A3">>
KelvinSign == <<"U+212A", "e", "l", "v", "i", "n">>

StringValues ==
    {Str(cs) : cs \in
        {<<"T", "E", "S", "T">>,
         <<"t", "e", "s", "t">>,
         <<" ", " ", "t", "e", "s", "t", " ", " ">>,
         <<"d", "i", "f", "f", "e", "r", "e", "n", "t">>,
         AcmePadded,
         AcmeUpper,
         <<"A", "c", "m", "e", " ", "\t", " ", "C", "o", "r", "p">>,
         <<"1", "2", "3", " ", "M", "a", "i", "n", " ", "S", "t", "\n", "S", "u", "i", "t", "e", " ", "4">>,
         <<"1", "2", "3", " ", "m", "a", "i", "n", " ", "s", "t", ",", " ", "s", "u", "i", "t", "e", " ", "4">>,
         Iso15,
         <<"2", "0", "2", "4", "-", "0", "1", "-", "1", "6">>,
         <<" ", "2", "0", "2", "4", "-", "0", "1", "-", "1", "5">>,
         <<"A", "C", "M", "E", "-", "0", "0", "0", "1", "2">>,
         <<"a", "c", "m", "e", "-", "0", "0", "0", "1", "2">>,
         <<"2", "0", "2", "4", "-", "0", "1", "-", "1", " ">>,
         <<"2", "0", "2", "4", "-", "0", "1", "-", "1">>,
         <<"U+2003", "T", "e", "s", "t", "\r", "\n">>,
         <<"1", "2", "3", " ", "M", "a", "i", "n", " ", "S", "t", "\r", "\n", "S", "u", "i", "t", "e", " ", "4">>,
         Iso15 \o <<"\r">>,
         CafeUpper,
         <<"c", "a", "f", "é">>,
         <<"U+0130">>,
         <<"i", "U+0307">>,
         <<"U+0100", "c", "m", "e">>,
         <<"U+0101", "c", "m", "e">>,
         OdosUpper,
         <<"U+03BF", "U+03B4", "U+03BF", "U+03C2">>,
         <<"U+03BF", "U+03B4", "U+03BF", "U+03C3">>,
         KelvinSign,
         <<"k", "e", "l", "v", "i", "n">>}}

\* amounts in thousandths around the 0.01 edge at several magnitudes
EdgeAmounts ==
    {0, 10, 20, 30, 2000, 2009, 2010, 2011, 100000, 100005, 100009, 100010, 100011, 200000}

NumericValues ==
    {Dec(v) : v \in EdgeAmounts} \cup {Float(v) : v \in EdgeAmounts}
        \cup {PyInt(v) : v \in {a \in EdgeAmounts : a % Thousand = 0}}

\* a value that is neither null, a number, a string nor a date
EmptyList == [k |-> "list", v |-> <<>>]

DateValues == {Date(2024, 1, 15), Date(2024, 1, 16)}

Values == {None, EmptyList} \cup StringValues \cup NumericValues \cup DateValues

MatchInputs == {[expected |-> e, predicted |-> p] : e \in Values, p \in Values}

EvalInit ==
    /\ config = DefaultConfig
    /\ samples = Construct(config).samples
    /\ baseline_accuracy = Construct(config).baseline_accuracy
    /\ alerts = Construct(config).alerts
    /\ field_accuracies = Construct(config).field_accuracies
    /\ last_op = "init"
    /\ last_arg = None
    /\ result = Returned(None)
    /\ ingested = 0
    /\ fresh = Absent
    /\ calls = NoCalls

Called(op, arg, r) ==
    /\ last_op = "init"
    /\ last_op' = op
    /\ last_arg' = arg
    /\ result' = r
    /\ UNCHANGED <<config, samples, baseline_accuracy, alerts, field_accuracies,
                   ingested, fresh, calls>>

EvaluateCall ==
    \E in \in ShortBatches \cup RunBatches \cup PerfectBatches :
        Called("evaluate_extraction", in, evaluate_extraction(in.expected, in.predicted))

MatchCall ==
    \E in \in MatchInputs :
        Called("calculate_field_match", in,
               Returned(calculate_field_match(in.expected, in.predicted)))

EvalNext == EvaluateCall \/ MatchCall

EvalSpec == EvalInit /\ [][EvalNext]_vars

-----------------------------------------------------------------------------
(* Properties *)

W == config.window_size
MinSamples == config.min_samples

AlertsOfType(as, type) == {i \in 1..Len(as) : as[i].alert_type = type}
HasAlert(as, type) == AlertsOfType(as, type) # {}

AddReturned == last_op = "add_sample" /\ ~result.raised
WindowMean == mean(Accuracies(samples))
AllZero(smpls) == \A i \in 1..Len(smpls) : smpls[i].overall_accuracy = F64Zero

\* C1: with window_size >= 1, after n add_sample calls since construction or the
\* last clear() the window holds exactly min(n, window_size) samples, and they
\* are the most recently ingested ones in ingestion order.
C1_WindowHoldsMostRecent ==
    W >= 1 =>
        /\ Len(samples) = Min(ingested, W)
        /\ \A i \in 1..Len(samples) :
              samples[i].document_id = ingested - Len(samples) + i

\* the window of test_window_size_limit after twice its capacity was ingested
C1_Witness ==
    /\ config = WindowLimitConfig
    /\ last_op = "add_sample"
    /\ ingested = 2 * W
    /\ Len(samples) = W

\* C2 as stated: an add_sample call that leaves the window below min_samples
\* returns no alert, leaves the alert log unchanged and has appended the sample
\* to the window.
C2_Original ==
    [][(last_op' = "add_sample" /\ Len(samples') < MinSamples) =>
          /\ result' = Returned(<<>>)
          /\ alerts' = alerts
          /\ Len(samples') >= 1
          /\ Last(samples').document_id = ingested']_vars

\* C2 (amended): an add_sample call that leaves the window below min_samples
\* returns no alert and leaves the alert log unchanged, whatever the document
\* and the baseline; with window_size >= 1 the sample is the newest element of
\* the window (a window of size 0 retains nothing).
C2_UncalibratedSilence ==
    [][(last_op' = "add_sample" /\ Len(samples') < MinSamples) =>
          /\ result' = Returned(<<>>)
          /\ alerts' = alerts
          /\ W >= 1 => /\ Len(samples') = Min(Len(samples) + 1, W)
                       /\ Last(samples').document_id = ingested']_vars

\* 19 all-wrong documents under the default min_samples of 20, baseline set
C2_Witness ==
    /\ config = DefaultConfig
    /\ last_op = "add_sample"
    /\ ingested = MinSamples - 1
    /\ Len(samples) = ingested
    /\ AllZero(samples)
    /\ ~IsNone(baseline_accuracy)
    /\ result = Returned(<<>>)

\* the detector runs the cascade on every add_sample: the gate of _check_drift
\* is passed, and an all-zero window under a positive threshold is reported
Monitoring ==
    /\ Len(samples) >= MinSamples
    /\ (last_op = "add_sample" /\ AllZero(samples)
            /\ F64Less(F64Zero, config.accuracy_threshold))
         => (~result.raised /\ HasAlert(result.value, "threshold_breach"))

\* C3 as stated: with window_size >= 1 and min_samples >= 1, once min_samples
\* observations were ingested the detector is monitoring, until clear().
C3_Original ==
    (W >= 1 /\ MinSamples >= 1 /\ ingested >= MinSamples) => Monitoring

\* C3 (amended): with window_size >= min_samples >= 1, once min_samples
\* observations were ingested since construction or the last clear() the
\* detector is monitoring and stays so until clear(): every add_sample from the
\* min_samples-th on runs the cascade, and returns threshold_breach when every
\* sample has overall_accuracy 0 and accuracy_threshold > 0.
C3_MonitoringOnceCalibrated ==
    (W >= MinSamples /\ MinSamples >= 1 /\ ingested >= MinSamples) => Monitoring

\* the tenth all-wrong document under the fixture (min_samples = 5)
C3_Witness ==
    /\ config = FixtureConfig
    /\ last_op = "add_sample"
    /\ ingested = 2 * MinSamples
    /\ AllZero(samples)
    /\ HasAlert(result.value, "threshold_breach")

\* C4: every add_sample call that leaves the window at or above min_samples
\* returns a list holding exactly one threshold_breach alert when the mean of
\* the windowed overall_accuracy is strictly below accuracy_threshold and none
\* otherwise, on every such call (no de-duplication).
C4_ThresholdBreachOnEveryCall ==
    (last_op = "add_sample" /\ Len(samples) >= MinSamples) =>
        /\ ~result.raised
        /\ Cardinality(AlertsOfType(result.value, "threshold_breach")) =
              (IF F64Less(WindowMean, config.accuracy_threshold) THEN 1 ELSE 0)

\* C4 on the calls that return (min_samples = 0 lets _check_drift raise
\* StatisticsError instead): the returned list holds exactly one
\* threshold_breach alert when the window mean is strictly below
\* accuracy_threshold and none otherwise.
C4_ThresholdBreachIffBelow ==
    (AddReturned /\ Len(samples) >= MinSamples) =>
        Cardinality(AlertsOfType(result.value, "threshold_breach")) =
            (IF F64Less(WindowMean, config.accuracy_threshold) THEN 1 ELSE 0)

\* the breach reported again by a later call
C4_Witness ==
    /\ AddReturned
    /\ HasAlert(result.value, "threshold_breach")
    /\ Cardinality(AlertsOfType(alerts, "threshold_breach")) >= 2

\* the first five documents perfect, the next ten all wrong
DropScenario ==
    /\ config = FixtureConfig
    /\ baseline_accuracy = F64FromQuot(9, 10)
    /\ Len(samples) = 15
    /\ \A i \in 1..5 : samples[i].overall_accuracy = F64One
    /\ \A i \in 6..15 : samples[i].overall_accuracy = F64Zero

\* C5: every add_sample call that leaves the window at or above min_samples
\* returns an accuracy_drop alert iff a baseline is set and baseline minus the
\* rolling mean is strictly above drop_threshold (never without a baseline);
\* after set_baseline(0.90), five perfect and ten zero-accuracy documents under
\* drop_threshold 0.10 and min_samples 5, accuracy_drop has been returned.
C5_AccuracyDropOnEveryCall ==
    /\ (last_op = "add_sample" /\ Len(samples) >= MinSamples) =>
          /\ ~result.raised
          /\ HasAlert(result.value, "accuracy_drop") <=>
                (/\ ~IsNone(baseline_accuracy)
                 /\ F64Less(config.drop_threshold, F64Sub(baseline_accuracy, WindowMean)))
    /\ DropScenario => HasAlert(alerts, "accuracy_drop")

\* C5 on the calls that return (min_samples = 0 lets _check_drift raise
\* StatisticsError instead): accuracy_drop is returned iff a baseline is set and
\* baseline minus the rolling mean is strictly above drop_threshold, and the
\* drop scenario of the tests has reported accuracy_drop.
C5_AccuracyDropIffBaselineDrop ==
    /\ (AddReturned /\ Len(samples) >= MinSamples) =>
          (HasAlert(result.value, "accuracy_drop") <=>
              (/\ ~IsNone(baseline_accuracy)
               /\ F64Less(config.drop_threshold, F64Sub(baseline_accuracy, WindowMean))))
    /\ DropScenario => HasAlert(alerts, "accuracy_drop")

C5_Witness ==
    /\ DropScenario
    /\ AddReturned
    /\ HasAlert(result.value, "accuracy_drop")

\* C6: clear() empties the window, every per-field buffer and the alert log and
\* keeps the baseline; from then on the detector and a newly constructed
\* detector with the same config and baseline, given the same calls, hold the
\* same state and return the same alerts and statistics.
C6_ClearIsFresh ==
    /\ [][last_op' = "clear" =>
            /\ samples' = <<>>
            /\ alerts' = <<>>
            /\ \A f \in DOMAIN field_accuracies' : field_accuracies'[f] = <<>>
            /\ baseline_accuracy' = baseline_accuracy]_vars
    /\ [](HasFresh => (fresh.det = Self /\ fresh.result = result))

\* alerts returned after a clear() that followed earlier samples, baseline kept
C6_Witness ==
    /\ HasFresh
    /\ AddReturned
    /\ ~IsNone(baseline_accuracy)
    /\ HasAlert(result.value, "field_threshold_breach")
    /\ fresh.result = result

\* C7: every alert list add_sample returns is appended to the log in the order
\* returned; the log is emptied by clear() only and no other call changes it.
C7_LogIsConcatenation ==
    [][/\ last_op' = "add_sample" =>
             alerts' = alerts \o (IF result'.raised THEN <<>> ELSE result'.value)
       /\ last_op' = "clear" => alerts' = <<>>
       /\ last_op' \notin {"add_sample", "clear"} => alerts' = alerts]_vars

\* a call whose alerts were appended behind earlier ones
C7_Witness ==
    /\ AddReturned
    /\ Len(result.value) >= 1
    /\ Len(alerts) > Len(result.value)

Stats == get_stats(Self).result

\* r is a float within half a unit in its last place of the exact mean of xs:
\* |Len(xs) * r - sum(xs)| <= Len(xs) * 2^(r.e - 1), and zero only for a zero sum
NearExactMean(r, xs) ==
    /\ F64IsFinite(r)
    /\ F64IsZero(r) => F64IsZero(ExactSum(xs))
    /\ ~F64Less([sign |-> 1, m |-> BFromInt(Len(xs)), e |-> r.e - 1],
               F64Abs(ExactAdd(ExactMul(ExactFromInt(Len(xs)), r), F64Neg(ExactSum(xs)))))

\* C8: in every reachable state get_stats() returns without raising, with
\* sample_count the window length and rolling_accuracy null exactly when the
\* window is empty and the mean of the windowed accuracies otherwise.
C8_StatsNeverRaises ==
    /\ ~Stats.raised
    /\ Stats.value.sample_count = Len(samples)
    /\ IsNone(Stats.value.rolling_accuracy) <=> (Len(samples) = 0)
    /\ Len(samples) > 0 => NearExactMean(Stats.value.rolling_accuracy, Accuracies(samples))

\* get_stats() on a just-cleared detector
C8_Witness ==
    /\ last_op = "get_stats"
    /\ HasFresh
    /\ ingested = 0
    /\ result.value.sample_count = 0
    /\ IsNone(result.value.rolling_accuracy)

FullSummary ==
    {"sample_count", "rolling_accuracy", "accuracy_std_dev", "baseline_accuracy",
     "min_accuracy", "max_accuracy", "alerts_count", "recent_alerts"}

EmptySummary == {"sample_count", "rolling_accuracy", "baseline_accuracy", "alerts_count"}

\* what the entries of a full summary must be
SummaryEntries(st) ==
    /\ st.sample_count = Len(samples)
    /\ st.baseline_accuracy = baseline_accuracy
    /\ st.alerts_count = Len(alerts)
    /\ \A i \in 1..Len(samples) :
          /\ ~F64Less(samples[i].overall_accuracy, st.min_accuracy)
          /\ ~F64Less(st.max_accuracy, samples[i].overall_accuracy)
    /\ \E i \in 1..Len(samples) : samples[i].overall_accuracy = st.min_accuracy
    /\ \E i \in 1..Len(samples) : samples[i].overall_accuracy = st.max_accuracy
    /\ Len(st.recent_alerts) = Min(Len(alerts), 5)
    /\ \A i \in 1..Len(st.recent_alerts) :
          st.recent_alerts[i].type =
              alerts[Len(alerts) - Len(st.recent_alerts) + i].alert_type

\* C9 as stated: every summary has all the listed entries, and accuracy_std_dev
\* is present and 0.0 whenever the window holds fewer than two samples.
C9_Original ==
    /\ ~Stats.raised
    /\ DOMAIN Stats.value = FullSummary
    /\ Len(samples) < 2 => Stats.value.accuracy_std_dev = F64Zero

\* C9 (amended): for a non-empty window the summary has all the listed entries
\* (the up-to-5 most recent alerts in log order), with accuracy_std_dev 0.0 for
\* a window of exactly one sample; for an empty window it has only
\* sample_count, rolling_accuracy, baseline_accuracy and the alert count.
C9_SummaryEntries ==
    /\ ~Stats.raised
    /\ Len(samples) = 0 =>
          /\ DOMAIN Stats.value = EmptySummary
          /\ Stats.value.baseline_accuracy = baseline_accuracy
          /\ Stats.value.alerts_count = Len(alerts)
    /\ Len(samples) >= 1 =>
          /\ DOMAIN Stats.value = FullSummary
          /\ SummaryEntries(Stats.value)
          /\ Len(samples) = 1 => Stats.value.accuracy_std_dev = F64Zero

\* the summary of a one-sample window
C9_Witness ==
    /\ last_op = "get_stats"
    /\ Len(samples) = 1
    /\ result.value.accuracy_std_dev = F64Zero
    /\ Len(alerts) >= 1

\* C10: get_stats() leaves window, per-field buffers, alert log and baseline as
\* they were; set_baseline(x) stores x whatever x and the earlier baseline are,
\* returns nothing and leaves window, per-field buffers and alert log as they were.
C10_StatsAndBaselineFrame ==
    [][/\ last_op' = "get_stats" =>
             UNCHANGED <<samples, field_accuracies, alerts, baseline_accuracy>>
       /\ last_op' = "set_baseline" =>
             /\ baseline_accuracy' = last_arg'
             /\ result' = Returned(None)
             /\ UNCHANGED <<samples, field_accuracies, alerts>>]_vars

\* an out-of-range baseline stored over an earlier state
C10_Witness ==
    /\ last_op = "set_baseline"
    /\ baseline_accuracy = F64FromQuot(3, 2)
    /\ HasFresh

\* the monitored fields for which a document supplies a non-null expected value
Monitored == FieldSet(config.monitored_fields)
Supplied(doc) ==
    {f \in Monitored :
        /\ ~IsNone(doc.expected)
        /\ f \in DOMAIN doc.expected.v
        /\ ~IsNone(doc.expected.v[f])}
PredictedNull(doc, f) == f \notin DOMAIN doc.predicted \/ IsNone(doc.predicted[f])
Hits(doc) ==
    {f \in Supplied(doc) :
        calculate_field_match(doc.expected.v[f], InvoiceValue(doc.predicted, f))}

\* C19: the sample stored by add_sample has overall_accuracy = (monitored
\* fields with a non-null expected value that match) / (monitored fields with
\* a non-null expected value), or 0.0 when no monitored field has one; a null
\* predicted value is a miss, and a field whose expected value is null or
\* absent counts on neither side even when a value was predicted.
C19_OverallAccuracy ==
    (last_op = "add_sample" /\ W >= 1) =>
        LET stored == Last(samples)
            supplied == Supplied(last_arg)
            hits == Hits(last_arg)
        IN /\ stored.document_id = ingested
           /\ stored.overall_accuracy =
                 IF supplied = {} THEN F64Zero
                 ELSE F64FromQuot(Cardinality(hits), Cardinality(supplied))
           /\ DOMAIN stored.field_matches = supplied
           /\ \A f \in supplied :
                 /\ stored.field_matches[f] <=> f \in hits
                 /\ PredictedNull(last_arg, f) => ~stored.field_matches[f]

\* the amount expected but not extracted: one hit out of two supplied fields
C19_Witness ==
    /\ last_op = "add_sample"
    /\ W >= 1
    /\ last_arg = Doc(no_amount_invoice, matching_expected)
    /\ Supplied(last_arg) = {"invoice_number", "total_amount"}
    /\ PredictedNull(last_arg, "total_amount")
    /\ Last(samples).overall_accuracy = F64FromQuot(1, 2)

\* the last n elements of a sequence
LastN(s, n) == SubSeq(s, Len(s) - Min(n, Len(s)) + 1, Len(s))

Outcome(b) == IF b THEN F64One ELSE F64Zero

\* the outcomes of field f over the samples of the window that carry one
RECURSIVE WindowOutcomes(_, _)
WindowOutcomes(smpls, f) ==
    IF smpls = <<>> THEN <<>>
    ELSE (IF f \in DOMAIN Head(smpls).field_matches
          THEN <<Outcome(Head(smpls).field_matches[f])>> ELSE <<>>)
             \o WindowOutcomes(Tail(smpls), f)

\* the match outcome of field f of a document that supplies it
Matches(doc, f) == calculate_field_match(doc.expected.v[f], InvoiceValue(doc.predicted, f))

\* C20: the buffer of a monitored field f holds, in ingestion order, the
\* 1.0/0.0 outcomes of the last min(window_size, k_f) samples that supplied a
\* non-null expected value for f: each add_sample appends the outcome of f and
\* evicts the oldest one beyond window_size when the sample supplies f, and
\* leaves the buffer of f alone when it does not; until the window first
\* evicts, the buffer is the outcomes of f over the window.
C20_FieldBuffers ==
    /\ [][last_op' = "add_sample" =>
              \A f \in Monitored :
                  IF f \in Supplied(last_arg')
                  THEN IF W = 0 THEN field_accuracies'[f] = <<>>
                       ELSE field_accuracies'[f] =
                                LastN(Append(field_accuracies[f],
                                             Outcome(Last(samples').field_matches[f])), W)
                  ELSE field_accuracies'[f] = field_accuracies[f]]_vars
    /\ [][last_op' = "clear" => \A f \in Monitored : field_accuracies'[f] = <<>>]_vars
    /\ [](\A f \in Monitored :
              /\ Len(field_accuracies[f]) <= Min(W, ingested)
              /\ ingested <= W => field_accuracies[f] = WindowOutcomes(samples, f)
              /\ (last_op = "add_sample" /\ W >= 1 /\ f \in Supplied(last_arg)) =>
                    Last(samples).field_matches[f] = Matches(last_arg, f))

\* a buffer still holding the outcome of a sample the window has evicted
C20_Witness ==
    /\ last_op = "add_sample"
    /\ W >= 1
    /\ ingested > W
    /\ \E f \in Monitored :
          /\ Supplied(last_arg) = {}
          /\ Len(field_accuracies[f]) = W
          /\ WindowOutcomes(samples, f) # field_accuracies[f]

\* the positions in a returned list of the field_threshold_breach alerts, of
\* those naming field f, and the position of f in monitored_fields
FieldBreaches(as) == AlertsOfType(as, "field_threshold_breach")
FieldBreachesOf(as, f) == {i \in FieldBreaches(as) : as[i].field = Str(f)}
FieldIndex(f) ==
    CHOOSE i \in 1..Len(config.monitored_fields) : config.monitored_fields[i] = f

\* the buffer of f has passed the field gate and its mean is below the threshold
FieldBelow(f) ==
    /\ Len(field_accuracies[f]) >= MinSamples
    /\ Len(field_accuracies[f]) >= 1
    /\ F64Less(mean(field_accuracies[f]), config.accuracy_threshold)

\* what C21 says of a returned list: one field_threshold_breach naming f exactly
\* when the buffer of f holds at least min_samples entries with a mean strictly
\* below accuracy_threshold, none otherwise; the field alerts in
\* monitored_fields order; every other alert with field = None
FieldBreachRule(as) ==
    /\ \A f \in Monitored :
          Cardinality(FieldBreachesOf(as, f)) = (IF FieldBelow(f) THEN 1 ELSE 0)
    /\ \A i \in FieldBreaches(as) :
          /\ ~IsNone(as[i].field)
          /\ as[i].field.v \in Monitored
    /\ \A i, j \in FieldBreaches(as) :
          i < j => FieldIndex(as[i].field.v) < FieldIndex(as[j].field.v)
    /\ \A i \in 1..Len(as) :
          as[i].alert_type \in {"threshold_breach", "accuracy_drop", "volatility"}
              => IsNone(as[i].field)

\* C21: every add_sample call that runs the check cascade (the window holds at
\* least min_samples samples) returns, for each monitored field independently,
\* a field_threshold_breach alert naming it iff its buffer holds at least
\* min_samples entries and their mean is strictly below accuracy_threshold; at
\* most one per field, in monitored_fields order; the overall-level alerts
\* carry field = None.
C21_FieldBreachOnEveryCall ==
    (last_op = "add_sample" /\ Len(samples) >= MinSamples) =>
        /\ ~result.raised
        /\ FieldBreachRule(result.value)

\* C21 on the calls that return (min_samples = 0 lets the per-field mean of
\* _check_drift raise StatisticsError on an empty buffer instead)
C21_FieldBreachIffBelow ==
    (AddReturned /\ Len(samples) >= MinSamples) => FieldBreachRule(result.value)

\* one field below the threshold and reported, another at or above it and not
C21_Witness ==
    /\ AddReturned
    /\ Len(samples) >= MinSamples
    /\ \E f, g \in Monitored :
          /\ FieldBelow(f) /\ FieldBreachesOf(result.value, f) # {}
          /\ Len(field_accuracies[g]) >= MinSamples /\ ~FieldBelow(g)
          /\ FieldBreachesOf(result.value, g) = {}

\* the sum over xs of (Len(xs) * x - sx)^2, which for sx the sum of xs is
\* Len(xs)^2 times the sum of the squared deviations from the mean
RECURSIVE ScaledDeviations(_, _, _)
ScaledDeviations(xs, i, sx) ==
    IF i > Len(xs) THEN F64Zero
    ELSE ExactAdd(ExactMul(ExactAdd(ExactMul(ExactFromInt(Len(xs)), xs[i]), F64Neg(sx)),
                           ExactAdd(ExactMul(ExactFromInt(Len(xs)), xs[i]), F64Neg(sx))),
                  ScaledDeviations(xs, i + 1, sx))

\* the least real that rounds to a float above t > 0: halfway from t to the
\* next float
RoundsAbove(t) == [sign |-> 1, m |-> BAdd(BMulSmall(t.m, 2), <<1>>), e |-> t.e - 1]

\* the float nearest to the sample standard deviation (n - 1 denominator) of xs
\* is strictly above the float t >= 0: on the squares, the exact deviation is
\* above RoundsAbove(t), or on it with the tie going up to the even neighbour
DeviationAbove(t, devs, bound) ==
    IF F64IsZero(t) THEN ~F64IsZero(devs)
    ELSE \/ F64Less(bound, devs)
         \/ ~F64Less(devs, bound) /\ Low(t.m) % 2 = 1

Volatile ==
    /\ Len(samples) >= 2
    /\ DeviationAbove(config.volatility_threshold,
                      ScaledDeviations(Accuracies(samples), 1, ExactSum(Accuracies(samples))),
                      ExactMul(ExactFromInt(Len(samples) * Len(samples) * (Len(samples) - 1)),
                               ExactMul(RoundsAbove(config.volatility_threshold),
                                        RoundsAbove(config.volatility_threshold))))

Uniform == \A i \in 1..Len(samples) : samples[i].overall_accuracy = samples[1].overall_accuracy

\* what C22 says of a returned list, by the size of the window it was computed on
VolatilityRule(as) ==
    /\ (Len(samples) < VolatilityMinSamples \/ Len(samples) < MinSamples)
          => ~HasAlert(as, "volatility")
    /\ (Len(samples) >= VolatilityMinSamples /\ Len(samples) >= MinSamples)
          => /\ HasAlert(as, "volatility") <=> Volatile
             /\ Uniform => ~HasAlert(as, "volatility")

\* C22: an add_sample call that leaves fewer than 10 samples (or fewer than
\* min_samples) in the window returns no volatility alert; one that leaves at
\* least max(10, min_samples) returns a volatility alert iff the sample standard
\* deviation of the windowed overall_accuracy is strictly above
\* volatility_threshold, so never for a window of equal accuracies.
C22_VolatilityOnEveryCall ==
    last_op = "add_sample" =>
        /\ result.raised =>
              ~(Len(samples) >= VolatilityMinSamples /\ Len(samples) >= MinSamples /\ Volatile)
        /\ ~result.raised => VolatilityRule(result.value)

\* C22 on the calls that return (min_samples = 0 lets the per-field mean of
\* _check_drift raise StatisticsError after the volatility check has passed)
C22_VolatilityIffDeviation ==
    AddReturned => VolatilityRule(result.value)

\* a mixed window of ten or more reported, under the fixture
C22_Witness ==
    /\ AddReturned
    /\ Len(samples) >= VolatilityMinSamples
    /\ Len(samples) >= MinSamples
    /\ Volatile
    /\ HasAlert(result.value, "volatility")

\* C23: no call of add_sample, set_baseline, get_stats or clear raises, in any
\* reachable state of any configuration DriftConfig accepts (window_size >= 0,
\* min_samples >= 0, window_size < min_samples included): no mean is taken of
\* an empty window or an empty field buffer, no standard deviation of fewer
\* than two values.
C23_NoCallRaises ==
    last_op \in {"add_sample", "set_baseline", "get_stats", "clear"} => ~result.raised

\* a document that differs from doc in every field outside monitored_fields and
\* in nothing else: each such field of the record and of the expected mapping
\* gets another value, and the mapping gains a field it did not have
ScrambledPredicted(p) ==
    [f \in DOMAIN p |->
        IF f \in Monitored THEN p[f]
        ELSE IF f = "invoice_date" THEN Date(2024, 1, 16)
        ELSE Str(<<"Z">>)]
ScrambledExpected(e) ==
    IF IsNone(e) THEN None
    ELSE Dict([f \in DOMAIN e.v \cup {"customer_name"} |->
                  IF f \in Monitored THEN e.v[f] ELSE Str(<<"Y">>)])

\* the call r leaves the window, the buffers and the log as this step does, and
\* returns the same alerts (types, fields, values and thresholds)
SameOutcome(r) ==
    /\ r.det.samples = samples'
    /\ r.det.field_accuracies = field_accuracies'
    /\ r.det.alerts = alerts'
    /\ r.result = result'

\* C24: fields outside monitored_fields are invisible: from the same detector
\* state, add_sample on a document and on one that differs from it only in
\* non-monitored fields (of the predicted record and of the expected mapping)
\* store the same field_matches and overall_accuracy, leave the same per-field
\* buffers and return the same alerts; the two detectors are then in the same
\* state again, so two such sequences of calls agree at every step.
C24_NonMonitoredInvisible ==
    [][last_op' = "add_sample" =>
          /\ SameOutcome(add_sample(Self, ingested', ScrambledPredicted(last_arg'.predicted),
                                    ScrambledExpected(last_arg'.expected)))
          /\ samples' # <<>> => DOMAIN Last(samples').field_matches \subseteq Monitored]_vars

\* a document with non-monitored fields on both sides, scored and alerted on
C24_Witness ==
    /\ AddReturned
    /\ W >= 1
    /\ ~IsNone(last_arg.expected)
    /\ ScrambledPredicted(last_arg.predicted) # last_arg.predicted
    /\ ScrambledExpected(last_arg.expected) # last_arg.expected
    /\ DOMAIN last_arg.expected.v \ Monitored # {}
    /\ Supplied(last_arg) # {}
    /\ result.value # <<>>

\* the call of thread t, and the other thread
CallOf(t) == calls.thread[t]
OtherThread(t) == CHOOSE u \in Threads : u # t

\* thread u has pushed an outcome onto a field buffer and not yet its sample
\* onto the window
MidCall(u) == CallOf(u).pc \in {"loop", "store"} /\ CallOf(u).field_matches # <<>>

\* a drift check of thread t is in progress
Checking(t) == CallOf(t).pc \in {"gate", "iter", "window", "fields", "extend"}

\* the step ends the call of thread t with the result r.result and leaves the
\* detector r.det
EndsAs(t, r) ==
    /\ calls'.thread[t].result = r.result
    /\ samples' = r.det.samples
    /\ field_accuracies' = r.det.field_accuracies
    /\ alerts' = r.det.alerts

\* what the call of thread t returns when it runs alone on the new detector,
\* and when it runs after the whole call of the other thread
RunAlone(t) ==
    add_sample(Construct(config), t, CallOf(t).doc.predicted, CallOf(t).doc.expected)
RunSecond(t, u) ==
    add_sample(add_sample(Construct(config), u, CallOf(u).doc.predicted,
                          CallOf(u).doc.expected).det,
               t, CallOf(t).doc.predicted, CallOf(t).doc.expected)

\* C25: the detector has no lock of its own.  With the two calls serialized by
\* the callers' lock, no drift check ever runs on, or reads, a field buffer
\* longer than the window, no reading of the window fails on a deque mutated
\* during iteration, and each call ends as the whole add_sample does on the
\* detector it found.  Without the lock a per-field check reads a buffer
\* longer than the window only while the other call stands between its push
\* onto a field buffer and its append to the window (the witness: such a read
\* happens, and the alerts returned from it are those of no serial order).
C25_TornOnlyWithoutLock ==
    /\ [](calls.locked =>
             \A t \in Threads :
                 /\ ~CallOf(t).torn
                 /\ CallOf(t).result # Raised("RuntimeError")
                 /\ Checking(t) =>
                       \A f \in Monitored : Len(field_accuracies[f]) <= Len(samples))
    /\ [][\A t \in Threads :
              (calls.locked /\ CallOf(t).pc \notin {"idle", "done"}
                   /\ calls'.thread[t].pc = "done") =>
                  EndsAs(t, add_sample(CallOf(t).entry, t, CallOf(t).doc.predicted,
                                       CallOf(t).doc.expected))]_vars
    /\ [][\A t \in Threads :
              (calls'.thread[t].torn /\ ~CallOf(t).torn) =>
                  (~calls.locked /\ MidCall(OtherThread(t)))]_vars

\* without the lock: a call has returned a field_threshold_breach computed from
\* a buffer that held the other call's outcome before the window held its
\* sample, and neither serial order of the two calls returns that list
C25_Witness ==
    /\ ~calls.locked
    /\ MinSamples >= 1
    /\ \E t \in Threads :
          /\ CallOf(t).pc = "done"
          /\ CallOf(t).torn
          /\ CallOf(OtherThread(t)).pc # "idle"
          /\ HasAlert(CallOf(t).result.value, "field_threshold_breach")
          /\ CallOf(t).result # RunAlone(t).result
          /\ CallOf(t).result # RunSecond(t, OtherThread(t)).result

\* no monitored field is named twice
RepeatFree(fields) == \A i, j \in 1..Len(fields) : fields[i] = fields[j] => i = j

\* C26: with monitored_fields free of repeated names, between calls every field
\* buffer is at most as long as the window and the window at most window_size
\* long; so a buffer that passes the field gate (min_samples entries) finds the
\* window gate passed too, and a call that returns reports every field whose
\* buffer passes the field gate with a mean below the threshold.
C26_BuffersWithinWindow ==
    RepeatFree(config.monitored_fields) =>
        /\ Len(samples) <= config.window_size
        /\ \A f \in Monitored :
              /\ Len(field_accuracies[f]) <= Len(samples)
              /\ Len(field_accuracies[f]) >= MinSamples => Len(samples) >= MinSamples
              /\ (AddReturned /\ FieldBelow(f)) => FieldBreachesOf(result.value, f) # {}

\* after evictions from a full window, a buffer shorter than the window (its
\* field had no ground truth in some sample) passes the field gate and its
\* breach is returned
C26_Witness ==
    /\ AddReturned
    /\ RepeatFree(config.monitored_fields)
    /\ MinSamples >= 1
    /\ ingested > config.window_size
    /\ Len(samples) = config.window_size
    /\ \E f \in Monitored :
          /\ Len(field_accuracies[f]) < Len(samples)
          /\ FieldBelow(f)
          /\ FieldBreachesOf(result.value, f) # {}

\* the ground truth names no monitored field with a value (None, an empty
\* mapping, or a mapping that is null on every monitored field)
NoTruth(expected) == \A f \in Monitored : IsNone(ExpectedValue(expected, f))

\* the detector as a stream of samples without ground truth leaves it: nothing
\* scored in the window, nothing in the field buffers
OnlyUnscored ==
    /\ \A i \in 1..Len(samples) :
          DOMAIN samples[i].field_matches = {} /\ samples[i].overall_accuracy = F64Zero
    /\ \A f \in Monitored : field_accuracies[f] = <<>>

\* the configurations C27 is about
BreachableGate ==
    /\ F64Less(F64Zero, config.accuracy_threshold)
    /\ 1 <= MinSamples
    /\ MinSamples <= config.window_size

\* C27: samples without ground truth count as total failures.  While the calls
\* since construction (or clear) are add_sample calls without ground truth,
\* under accuracy_threshold > 0 and 1 <= min_samples <= window_size, each such
\* call stores a sample of accuracy 0 and leaves every field buffer empty; it
\* returns no field_threshold_breach, nothing at all before the
\* min_samples-th call, and one threshold_breach from the min_samples-th on.
C27_NoTruthCountsAsFailure ==
    [][(BreachableGate /\ OnlyUnscored /\ last_op' = "add_sample"
            /\ NoTruth(last_arg'.expected)) =>
          /\ ~result'.raised
          /\ \A f \in Monitored : field_accuracies'[f] = <<>>
          /\ Last(samples').overall_accuracy = F64Zero
          /\ DOMAIN Last(samples').field_matches = {}
          /\ FieldBreaches(result'.value) = {}
          /\ IF ingested' >= MinSamples
             THEN Cardinality(AlertsOfType(result'.value, "threshold_breach")) = 1
             ELSE result'.value = <<>>]_vars

\* past the first eviction of a stream without ground truth, the last document
\* carrying a mapping that is null on every monitored field: a threshold_breach
\* is returned and the buffers are empty
C27_Witness ==
    /\ AddReturned
    /\ BreachableGate
    /\ OnlyUnscored
    /\ Truthy(last_arg.expected)
    /\ NoTruth(last_arg.expected)
    /\ ingested > config.window_size
    /\ ingested > MinSamples
    /\ HasAlert(result.value, "threshold_breach")
    /\ FieldBreaches(result.value) = {}

-----------------------------------------------------------------------------
(* Properties of the scorer *)

Evaluated == last_op = "evaluate_extraction"
Reported == Evaluated /\ ~result.raised
Report == result.value
BatchLen == Len(last_arg.expected)

\* C11: evaluate_extraction raises the length-mismatch ValueError, and gives
\* no report, for every pair of batches of different lengths (either one the
\* longer, one of them empty or not); for every pair of equal lengths, two
\* empty batches included, it returns a report without raising.
C11_LengthPrecondition ==
    Evaluated =>
        IF Len(last_arg.expected) # Len(last_arg.predicted)
        THEN result = Raised("ValueError")
        ELSE /\ ~result.raised
             /\ DOMAIN Report = {"field_metrics", "macro_f1", "total_samples"}
             /\ Report.total_samples = BatchLen

\* an empty expected batch against a non-empty predicted one
C11_Witness ==
    /\ Evaluated
    /\ last_arg.expected = <<>>
    /\ Len(last_arg.predicted) = MaxBatch
    /\ result.raised

\* the pairs of a batch, by the class of field f in them
ExpOf(f, i) == getattr(last_arg.expected[i], f)
PredOf(f, i) == getattr(last_arg.predicted[i], f)
BothGiven(f) == {i \in 1..BatchLen : ~IsNone(ExpOf(f, i)) /\ ~IsNone(PredOf(f, i))}
Matching(f) == {i \in BothGiven(f) : calculate_field_match(ExpOf(f, i), PredOf(f, i))}
Wrong(f) == BothGiven(f) \ Matching(f)
Missed(f) == {i \in 1..BatchLen : ~IsNone(ExpOf(f, i)) /\ IsNone(PredOf(f, i))}
Spurious(f) == {i \in 1..BatchLen : IsNone(ExpOf(f, i)) /\ ~IsNone(PredOf(f, i))}

\* the tallies the five rules give field f: a match is one true positive, a
\* wrong value one false positive and one false negative, a missed value one
\* false negative, a spurious value one false positive, two nulls nothing
Tally(f) ==
    [true_positives |-> Cardinality(Matching(f)),
     false_positives |-> Cardinality(Wrong(f)) + Cardinality(Spurious(f)),
     false_negatives |-> Cardinality(Wrong(f)) + Cardinality(Missed(f))]

\* C12: for each of the ten fields the counters of evaluate_extraction are the
\* sums over the batch of one update per pair (match: tp+1; wrong value: fp+1
\* and fn+1; missed: fn+1; spurious: fp+1; both null: nothing), computed from
\* the values of that field alone, and the reported metrics are those of these
\* counters.
C12_TallyRules ==
    Reported =>
        \A f \in FieldSet(CanonicalFields) :
            /\ CountPairs(last_arg.expected, last_arg.predicted, f, 1, NoCounts) = Tally(f)
            /\ Report.field_metrics[f] = FieldMetrics(Tally(f), BatchLen)

\* the batch of test_evaluate_extraction_partial: a match, a wrong date and a
\* missed amount in one pair
C12_Witness ==
    /\ Reported
    /\ last_arg = [expected |-> <<partial_gold>>, predicted |-> <<partial_pred>>]
    /\ Tally("invoice_number") = [true_positives |-> 1, false_positives |-> 0, false_negatives |-> 0]
    /\ Tally("invoice_date") = [true_positives |-> 0, false_positives |-> 1, false_negatives |-> 1]
    /\ Tally("total_amount") = [true_positives |-> 0, false_positives |-> 0, false_negatives |-> 1]
    /\ Tally("due_date") = NoCounts

\* 2^-50: four units in the last place of 1.0
RoundingBound == F64Round(1, <<1>>, -50, FALSE)

\* |a - b| <= |b| * 2^-50
CloseTo(a, b) ==
    ~F64Less(F64Mul(F64Abs(b), RoundingBound), F64Abs(F64Sub(a, b)))

\* n / d as a float, or 0.0 when d = 0
Ratio(n, d) == IF d = 0 THEN F64Zero ELSE F64FromQuot(n, d)

\* C13 as stated: precision, recall and f1 by their formulas, f1 being equally
\* 2tp / (2tp + fp + fn), and support the batch length.
C13_Original ==
    Reported =>
        \A f \in FieldSet(CanonicalFields) :
            LET t == Tally(f)
                fm == Report.field_metrics[f]
            IN /\ fm.precision = Ratio(t.true_positives, t.true_positives + t.false_positives)
               /\ fm.recall = Ratio(t.true_positives, t.true_positives + t.false_negatives)
               /\ fm.f1 = Ratio(2 * t.true_positives,
                                2 * t.true_positives + t.false_positives + t.false_negatives)
               /\ fm.support = BatchLen

\* C13 (amended): precision = tp / (tp + fp) and recall = tp / (tp + fn), or 0
\* on a zero denominator; f1 = 2 * (precision * recall) / (precision + recall)
\* in floating point, or 0 when precision + recall = 0; f1 is 0 exactly when
\* tp = 0 and otherwise equals 2tp / (2tp + fp + fn) up to rounding only (not
\* always to the last bit); nothing raises and support is the batch length.
C13_MetricFormulas ==
    Reported =>
        \A f \in FieldSet(CanonicalFields) :
            LET t == Tally(f)
                fm == Report.field_metrics[f]
                sum == F64Add(fm.precision, fm.recall)
            IN /\ fm.precision = Ratio(t.true_positives, t.true_positives + t.false_positives)
               /\ fm.recall = Ratio(t.true_positives, t.true_positives + t.false_negatives)
               /\ fm.f1 = IF F64IsZero(sum) THEN F64Zero
                          ELSE F64Div(F64Mul(F64FromInt(2), F64Mul(fm.precision, fm.recall)), sum)
               /\ F64IsZero(fm.f1) <=> t.true_positives = 0
               /\ CloseTo(fm.f1, Ratio(2 * t.true_positives,
                                       2 * t.true_positives + t.false_positives
                                           + t.false_negatives))
               /\ fm.support = BatchLen

\* two matches, one wrong value and one missed value: f1 is one unit in the
\* last place above 4/7, and the support of a never-populated field is 4
C13_Witness ==
    /\ Reported
    /\ Tally("invoice_number") = [true_positives |-> 2, false_positives |-> 1, false_negatives |-> 2]
    /\ Report.field_metrics["invoice_number"].f1 # Ratio(4, 7)
    /\ Tally("due_date") = NoCounts
    /\ Report.field_metrics["due_date"].support = BatchLen
    /\ BatchLen = MaxRun

\* the ten f1 values added up in the order of the field list
F1At(i) == Report.field_metrics[CanonicalFields[i]].f1
F1Total ==
    F64Add(F64Add(F64Add(F64Add(F64Add(F64Add(F64Add(F64Add(F64Add(
        F1At(1), F1At(2)), F1At(3)), F1At(4)), F1At(5)), F1At(6)), F1At(7)), F1At(8)),
        F1At(9)), F1At(10))

FieldsWithF1(x) == {f \in FieldSet(CanonicalFields) : Report.field_metrics[f].f1 = x}

\* C14: macro_f1 is the sum of the f1 values of all ten canonical fields
\* divided by ten, a never-populated field weighing as much as any other; when
\* five of the f1 values are 1.0 and five are 0.0 it is exactly 0.5.
C14_MacroF1 ==
    Reported =>
        /\ DOMAIN Report.field_metrics = FieldSet(CanonicalFields)
        /\ Cardinality(FieldSet(CanonicalFields)) = 10
        /\ Report.macro_f1 = F64Div(F1Total, F64FromInt(10))
        /\ (Cardinality(FieldsWithF1(F64FromInt(1))) = 5
               /\ Cardinality(FieldsWithF1(F64Zero)) = 5)
              => Report.macro_f1 = F64FromQuot(1, 2)

\* one record with five populated fields scored against itself
C14_Witness ==
    /\ Reported
    /\ last_arg = [expected |-> <<dated_invoice>>, predicted |-> <<dated_invoice>>]
    /\ Cardinality(FieldsWithF1(F64FromInt(1))) = 5
    /\ Cardinality(FieldsWithF1(F64Zero)) = 5
    /\ Report.macro_f1 = F64FromQuot(1, 2)

-----------------------------------------------------------------------------
(* Properties of the matcher *)

Matched == last_op = "calculate_field_match"
Exp == last_arg.expected
Pred == last_arg.predicted
Answer == result.value

\* C15: matches(null, null) is true, and matches(null, v) and matches(v, null)
\* are false for every non-null v (string, number, date or other), whatever
\* the other rules would say of v.
C15_NullRules ==
    Matched =>
        /\ (IsNone(Exp) /\ IsNone(Pred)) => Answer = TRUE
        /\ (IsNone(Exp) /\ ~IsNone(Pred)) => Answer = FALSE
        /\ (~IsNone(Exp) /\ IsNone(Pred)) => Answer = FALSE

\* a null expected value against a native date
C15_Witness ==
    /\ Matched
    /\ IsNone(Exp)
    /\ Pred \in DateValues
    /\ Answer = FALSE

NumericPair == Matched /\ IsNumeric(Exp) /\ IsNumeric(Pred)
\* the difference of the two decimal values, in thousandths
Difference == Abs(Exp.v - Pred.v)
Amounts == {Exp.v, Pred.v}

\* C16 as stated: two numbers match iff their difference is strictly below
\* 0.01, a difference of exactly 0.01 never matching.
C16_Original ==
    NumericPair => (Answer <=> Difference < 10)

\* C16 (amended): two numbers of any kinds match iff
\* abs(float(expected) - float(predicted)) < 0.01 in double precision: a
\* difference of at most 0.009 matches and one of at least 0.011 does not,
\* while a decimal difference of exactly 0.01 falls on either side of the edge
\* with the rounding of the operands (0.02 vs 0.01 and 100.01 vs 100.00 do not
\* match; 0.03 vs 0.02 and 2.01 vs 2.00 do).
C16_ToleranceEdge ==
    NumericPair =>
        /\ Answer <=> F64Less(F64Abs(F64Sub(F64FromQuot(Exp.v, 1000), F64FromQuot(Pred.v, 1000))),
                              F64FromQuot(1, 100))
        /\ Difference <= 9 => Answer
        /\ Difference >= 11 => ~Answer
        /\ Amounts \in {{10, 20}, {100000, 100010}} => ~Answer
        /\ Amounts \in {{20, 30}, {2000, 2010}} => Answer

\* Decimal("2.01") against Decimal("2.00"): one cent apart, and matching
C16_Witness ==
    /\ NumericPair
    /\ Exp = Dec(2010)
    /\ Pred = Dec(2000)
    /\ Answer = TRUE

StringPair == Matched /\ IsStr(Exp) /\ IsStr(Pred)

\* a native date, or a string of ten characters with "-" at index 4
DateLike(x) == IsDate(x) \/ (IsStr(x) /\ Len(x.v) = 10 /\ x.v[5] = "-")

SameUpToCase(a, b) == Len(a) = Len(b) /\ \A i \in 1..Len(a) : Lower(a[i]) = Lower(b[i])
\* the same, every letter that differs being one of ASCII or Latin-1
SameUpToLatinCase(a, b) ==
    /\ Len(a) = Len(b)
    /\ \A i \in 1..Len(a) :
          a[i] = b[i] \/ (~Named(a[i]) /\ ~Named(b[i]) /\ Lower(a[i]) = Lower(b[i]))
SameUpToPadding(a, b) == Strip(a) = Strip(b)
Normalized(s) == CollapseWhitespace(ReplaceNewlines(LowerStr(Strip(s))))

\* C17 as stated: any two strings that are equal after normalization match, in
\* particular two strings differing only in letter case or in padding.
C17_Original ==
    StringPair =>
        /\ Normalized(Exp.v) = Normalized(Pred.v) => Answer
        /\ SameUpToCase(Exp.v, Pred.v) => Answer
        /\ SameUpToPadding(Exp.v, Pred.v) => Answer

\* C17 (amended): two strings that are not both date-like match iff they are
\* equal after normalization (trim, lowercase, newline to ", ", runs of
\* whitespace to one space, with the whitespace of str.strip() and the lower
\* case of str.lower(), where a capital sigma lowers by its place in the word),
\* in particular when they differ only in the case of ASCII or Latin-1 letters
\* or in padding; two date-like strings are compared after trimming only,
\* case-sensitively.
C17_StringNormalization ==
    StringPair =>
        IF DateLike(Exp) /\ DateLike(Pred)
        THEN Answer <=> Strip(Exp.v) = Strip(Pred.v)
        ELSE /\ Answer <=> Normalized(Exp.v) = Normalized(Pred.v)
             /\ SameUpToLatinCase(Exp.v, Pred.v) => Answer
             /\ SameUpToPadding(Exp.v, Pred.v) => Answer

\* "  Acme Corp  " against "ACME CORP"
C17_Witness ==
    /\ StringPair
    /\ Exp = Str(AcmePadded)
    /\ Pred = Str(AcmeUpper)
    /\ Answer = TRUE

\* the YYYY-MM-DD text of a native date, the trimmed text of a string
IsoText(x) == IF IsDate(x) THEN isoformat(x.v) ELSE Strip(x.v)

\* C18: two date-like values match iff the ISO form of the native date / the
\* trimmed string are equal, so a native date matches the ISO string of the
\* same day and different days never match; when only one side is date-like
\* the pair goes to the string rule (two strings) or to raw equality.
C18_DateRule ==
    (Matched /\ ~IsNone(Exp) /\ ~IsNone(Pred)) =>
        /\ (DateLike(Exp) /\ DateLike(Pred)) => (Answer <=> IsoText(Exp) = IsoText(Pred))
        /\ (IsDate(Exp) /\ IsDate(Pred) /\ Exp.v # Pred.v) => ~Answer
        /\ (DateLike(Exp) # DateLike(Pred)) =>
              (Answer <=> IF IsStr(Exp) /\ IsStr(Pred)
                          THEN Normalized(Exp.v) = Normalized(Pred.v)
                          ELSE Exp.k = Pred.k /\ Exp.v = Pred.v)

\* date(2024, 1, 15) against "2024-01-15"
C18_Witness ==
    /\ Matched
    /\ Exp = Date(2024, 1, 15)
    /\ Pred = Str(Iso15)
    /\ Answer = TRUE

\* the records of the batch that give field f a value, on either side
GivenExpected(f) == {i \in 1..BatchLen : ~IsNone(ExpOf(f, i))}
GivenPredicted(f) == {i \in 1..BatchLen : ~IsNone(PredOf(f, i))}

\* 0.0 <= x <= 1.0
InUnit(x) == ~F64Less(x, F64Zero) /\ ~F64Less(F64FromInt(1), x)

\* C28: for every field the counters of evaluate_extraction satisfy tp + fn =
\* number of records with a non-null expected value and tp + fp = number of
\* records with a non-null predicted value; so precision is tp over the non-null
\* predictions, recall tp over the non-null expectations (0 when there are
\* none), and precision, recall, f1 and macro_f1 lie in [0, 1].
C28_TallyTotals ==
    Reported =>
        /\ \A f \in FieldSet(CanonicalFields) :
              LET c == CountPairs(last_arg.expected, last_arg.predicted, f, 1, NoCounts)
                  fm == Report.field_metrics[f]
              IN /\ c.true_positives + c.false_negatives = Cardinality(GivenExpected(f))
                 /\ c.true_positives + c.false_positives = Cardinality(GivenPredicted(f))
                 /\ fm.precision = Ratio(c.true_positives, Cardinality(GivenPredicted(f)))
                 /\ fm.recall = Ratio(c.true_positives, Cardinality(GivenExpected(f)))
                 /\ InUnit(fm.precision)
                 /\ InUnit(fm.recall)
                 /\ InUnit(fm.f1)
        /\ InUnit(Report.macro_f1)

\* a batch with a match, a wrong value, a missed value and a spurious one of the
\* same field: three non-null expectations, three non-null predictions
C28_Witness ==
    /\ Reported
    /\ Cardinality(Matching("invoice_number")) = 1
    /\ Cardinality(Wrong("invoice_number")) = 1
    /\ Cardinality(Missed("invoice_number")) = 1
    /\ Cardinality(Spurious("invoice_number")) = 1
    /\ Cardinality(GivenExpected("invoice_number")) = 3
    /\ Cardinality(GivenPredicted("invoice_number")) = 3
    /\ Report.field_metrics["invoice_number"].precision = F64FromQuot(1, 3)
    /\ Report.field_metrics["invoice_number"].recall = F64FromQuot(1, 3)

\* the report of the same two batches with the roles exchanged
SwappedReport == evaluate_extraction(last_arg.predicted, last_arg.expected)

\* the report r has, field by field, the precision and recall of Report
\* exchanged and everything else equal
Mirrored(r) ==
    /\ ~r.raised
    /\ \A f \in FieldSet(CanonicalFields) :
          /\ r.value.field_metrics[f].precision = Report.field_metrics[f].recall
          /\ r.value.field_metrics[f].recall = Report.field_metrics[f].precision
          /\ r.value.field_metrics[f].f1 = Report.field_metrics[f].f1
          /\ r.value.field_metrics[f].support = Report.field_metrics[f].support
    /\ r.value.macro_f1 = Report.macro_f1
    /\ r.value.total_samples = Report.total_samples

\* C29: calculate_field_match gives the same answer with its arguments
\* exchanged, for null, numeric, date and string values in every combination;
\* and evaluate_extraction(predicted, expected) gives, for every field, the
\* precision and recall of evaluate_extraction(expected, predicted) exchanged,
\* with the same f1, macro_f1, support and total_samples.
C29_Symmetry ==
    /\ Matched => (Answer <=> calculate_field_match(Pred, Exp))
    /\ Reported => Mirrored(SwappedReport)

\* a batch whose precision and recall differ for a field (a missed value and no
\* spurious one, or more of one than of the other)
C29_Witness ==
    /\ Reported
    /\ Mirrored(SwappedReport)
    /\ Cardinality(Matching("invoice_number")) >= 1
    /\ Cardinality(Missed("invoice_number")) > Cardinality(Spurious("invoice_number"))
    /\ Cardinality(Spurious("invoice_number")) >= 1
    /\ Report.field_metrics["invoice_number"].precision
           # Report.field_metrics["invoice_number"].recall
    /\ SwappedReport.value.field_metrics["invoice_number"].precision
           # Report.field_metrics["invoice_number"].precision

\* a non-empty batch scored against itself
Perfect == Reported /\ BatchLen >= 1 /\ last_arg.predicted = last_arg.expected

\* the fields with a value in at least one record of the expected batch
PopulatedFields == {f \in FieldSet(CanonicalFields) : GivenExpected(f) # {}}

\* precision, recall and f1 of field f are all x
AllMetrics(f, x) ==
    /\ Report.field_metrics[f].precision = x
    /\ Report.field_metrics[f].recall = x
    /\ Report.field_metrics[f].f1 = x

\* what C30 says of the report of a perfect extraction
PerfectRule ==
    /\ \A f \in FieldSet(CanonicalFields) :
          AllMetrics(f, IF f \in PopulatedFields THEN F64FromInt(1) ELSE F64Zero)
    /\ Report.macro_f1 = F64FromQuot(Cardinality(PopulatedFields), 10)
    /\ Report.macro_f1 = F64FromInt(1) <=> Cardinality(PopulatedFields) = 10

\* what C30 says of the report of two empty batches
EmptyRule ==
    /\ \A f \in FieldSet(CanonicalFields) : AllMetrics(f, F64Zero)
    /\ Report.macro_f1 = F64Zero
    /\ Report.total_samples = 0

\* every amount of the expected batch converts to a finite float
AmountsInRange ==
    \A i \in 1..BatchLen : \A f \in FieldSet(CanonicalFields) :
        IsNumeric(ExpOf(f, i)) => ~F64IsInf(float(ExpOf(f, i)))

\* C30: perfect extraction.  When predicted[i] equals expected[i] for every i
\* of a non-empty batch, each field that is non-null in at least one expected
\* record gets precision = recall = f1 = 1.0, each field that is null in every
\* record gets 0.0, and macro_f1 is the number of populated fields over ten,
\* 1.0 only when all ten are populated; for two empty batches every metric and
\* macro_f1 are 0.0 with total_samples = 0.
C30_PerfectExtraction ==
    /\ Perfect => PerfectRule
    /\ (Reported /\ BatchLen = 0) => EmptyRule

\* C30 on the batches whose amounts are within the range of float (an amount
\* of 2^1024 or more converts to inf and does not match itself)
C30_PerfectWithinFloatRange ==
    /\ (Perfect /\ AmountsInRange) => PerfectRule
    /\ (Reported /\ BatchLen = 0) => EmptyRule

\* a record with all ten fields populated scored against itself: macro_f1 = 1.0
C30_Witness ==
    /\ Perfect
    /\ AmountsInRange
    /\ Cardinality(PopulatedFields) = 10
    /\ Report.macro_f1 = F64FromInt(1)

====
